---- MODULE Spec2Model ----
(***************************************************************************)
(* A model of convert_oas_to_postman.py: the conversion of an OpenAPI      *)
(* document (the global OAS) into a Postman collection (the global         *)
(* POSTMAN_COLLECTION), and of the schema engine under it (_resolve_ref,   *)
(* _resolve_all_refs, _normalize_schema, _build_example_from_schema).      *)
(*                                                                         *)
(* Python values are tagged records.  A str is a sequence of tokens whose  *)
(* concatenation is the text; the characters the code's string operations  *)
(* and regular expressions look at ("#", "/", "{", "}", "[", "]", "(",     *)
(* ")", " ", "\n", "|", ":") are always tokens of their own.  A dict is    *)
(* the sequence of its <<key, value>> pairs in insertion order.  A call    *)
(* that raises yields a "raise" record naming the exception.               *)
(***************************************************************************)
EXTENDS Integers, Sequences, FiniteSets, TLC

VARIABLES
    OAS,                \* the module global OAS
    POSTMAN_COLLECTION, \* the module global POSTMAN_COLLECTION
    pc,                 \* where convert_oas_to_postman stands
    error,              \* the exception that ended the last run, or None
    outputFile,         \* the contents of the output file, or None
    hashSeed,           \* the process's string hash seed (orders a set)
    nRuns,              \* conversions started in this process
    postman_description,\* the text of postman_description.md, None if missing
    runs,               \* the conversions ended so far: document, process, outcome
    call                \* the engine call last made: its arguments and result

vars == <<OAS, POSTMAN_COLLECTION, pc, error, outputFile, hashSeed, nRuns,
          postman_description, runs, call>>

----------------------------------------------------------------------------
(* Python values *)

None == [k |-> "null"]
JBool(b) == [k |-> "bool", b |-> b]
JInt(i) == [k |-> "int", i |-> i]
JStr(toks) == [k |-> "str", s |-> toks]
JList(elems) == [k |-> "list", l |-> elems]
JDict(pairs) == [k |-> "dict", d |-> pairs]
Raise(exc) == [k |-> "raise", e |-> exc]

W(word) == JStr(<<word>>)

IsNone(v) == v.k = "null"
IsStr(v) == v.k = "str"
IsList(v) == v.k = "list"
IsDict(v) == v.k = "dict"
IsErr(v) == v.k = "raise"

\* bool(v)
Truthy(v) ==
    CASE v.k = "null" -> FALSE
      [] v.k = "bool" -> v.b
      [] v.k = "int" -> v.i # 0
      [] v.k = "str" -> v.s # <<>>
      [] v.k = "list" -> v.l # <<>>
      [] v.k = "dict" -> v.d # <<>>

\* key in d
Has(d, key) == \E i \in 1..Len(d.d) : d.d[i][1] = key

\* d[key], for a key that is in d
Item(d, key) == d.d[CHOOSE i \in 1..Len(d.d) : d.d[i][1] = key][2]

\* d.get(key, default)
GetOr(d, key, default) == IF Has(d, key) THEN Item(d, key) ELSE default

\* d.get(key)
Get(d, key) == GetOr(d, key, None)

\* d[key] = v: a key already in d keeps its place
SetItem(d, key, v) ==
    IF Has(d, key)
    THEN JDict([i \in 1..Len(d.d) |->
                  IF d.d[i][1] = key THEN <<key, v>> ELSE d.d[i]])
    ELSE JDict(Append(d.d, <<key, v>>))

\* A value the collection takes from the document is the document's object
\* itself, not a copy of it.  A dict so taken carries the pair "@doc" with the
\* dict as it was loaded; the pair is no key of the Python dict.
Held(v) == IF v.k = "dict" THEN JDict(Append(v.d, <<"@doc", v>>)) ELSE v

RECURSIVE UpdatePairs(_, _)
UpdatePairs(d, pairs) ==
    IF pairs = <<>> THEN d
    ELSE UpdatePairs(SetItem(d, pairs[1][1], pairs[1][2]), Tail(pairs))

\* d.update(other)
Update(d, other) == UpdatePairs(d, other.d)

Keys(d) == {d.d[i][1] : i \in 1..Len(d.d)}

\* the concatenation of the sequences seqs, halving them
RECURSIVE Flatten(_)
Flatten(seqs) ==
    IF seqs = <<>> THEN <<>>
    ELSE IF Len(seqs) = 1 THEN seqs[1]
    ELSE Flatten(SubSeq(seqs, 1, Len(seqs) \div 2))
         \o Flatten(SubSeq(seqs, Len(seqs) \div 2 + 1, Len(seqs)))

\* ''.join(parts) as one key
RECURSIVE Text(_)
Text(toks) == IF toks = <<>> THEN "" ELSE toks[1] \o Text(Tail(toks))

----------------------------------------------------------------------------
(* str operations on token sequences *)

\* toks.replace(a + b, ''), a and b one-character tokens
RECURSIVE RemovePair(_, _, _)
RemovePair(toks, a, b) ==
    IF toks = <<>> THEN <<>>
    ELSE IF Len(toks) >= 2 /\ toks[1] = a /\ toks[2] = b
         THEN RemovePair(SubSeq(toks, 3, Len(toks)), a, b)
         ELSE <<toks[1]>> \o RemovePair(Tail(toks), a, b)

\* toks.split(sep): the pieces between the separators, each as one string
RECURSIVE SplitFrom(_, _, _)
SplitFrom(toks, sep, piece) ==
    IF toks = <<>> THEN <<piece>>
    ELSE IF toks[1] = sep
         THEN <<piece>> \o SplitFrom(Tail(toks), sep, "")
         ELSE SplitFrom(Tail(toks), sep, piece \o toks[1])

Split(toks, sep) == SplitFrom(toks, sep, "")

\* the tokens of a dict key: a path template is cut at its separators, any
\* other key of the documents is one word
Tokens(key) ==
    CASE key = "/tasks" -> <<"/", "tasks">>
      [] key = "/tasks/{task_gid}" -> <<"/", "tasks", "/", "{", "task_gid", "}">>
      [] key = "/users/{user_gid}/teams" ->
             <<"/", "users", "/", "{", "user_gid", "}", "/", "teams">>
      [] key = "application/json" -> <<"application", "/", "json">>
      [] key = "multipart/form-data" -> <<"multipart", "/", "form-data">>
      [] key = "application/x-www-form-urlencoded" ->
             <<"application", "/", "x-www-form-urlencoded">>
      [] key = "text/plain" -> <<"text", "/", "plain">>
      [] OTHER -> <<key>>

\* sep.join(parts), parts a sequence of token sequences
Join(parts, sep) ==
    Flatten([i \in 1..Len(parts) |-> IF i = 1 THEN parts[i] ELSE sep \o parts[i]])

Whitespace == {" ", "\n"}

\* toks.strip()
RECURSIVE LStrip(_)
LStrip(toks) ==
    IF toks # <<>> /\ toks[1] \in Whitespace THEN LStrip(Tail(toks)) ELSE toks

RECURSIVE RStrip(_)
RStrip(toks) ==
    IF toks # <<>> /\ toks[Len(toks)] \in Whitespace
    THEN RStrip(SubSeq(toks, 1, Len(toks) - 1)) ELSE toks

Strip(toks) == RStrip(LStrip(toks))

\* toks.replace(a, b), a one token, b a token sequence
Replace(toks, a, b) ==
    Flatten([i \in 1..Len(toks) |-> IF toks[i] = a THEN b ELSE <<toks[i]>>])

\* str(v), and v in an f-string
RECURSIVE PyStr(_)
RECURSIVE PyRepr(_)
RECURSIVE ReprElems(_)
RECURSIVE ReprPairs(_)
\* the token sequences parts, a ", " between them
Listed(parts) == Join(parts, <<",", " ">>)

PyStr(v) ==
    CASE v.k = "str" -> v.s
      [] v.k = "int" -> <<ToString(v.i)>>
      [] v.k = "bool" -> IF v.b THEN <<"True">> ELSE <<"False">>
      [] v.k = "null" -> <<"None">>
      [] OTHER -> PyRepr(v)

\* repr(v)
PyRepr(v) ==
    CASE v.k = "str" -> <<"'">> \o v.s \o <<"'">>
      [] v.k = "list" -> <<"[">> \o ReprElems(v.l) \o <<"]">>
      [] v.k = "dict" -> <<"{">> \o ReprPairs(v.d) \o <<"}">>
      [] OTHER -> PyStr(v)

ReprElems(elems) == Listed([i \in 1..Len(elems) |-> PyRepr(elems[i])])

ReprPairs(pairs) ==
    Listed([i \in 1..Len(pairs) |->
              <<"'">> \o Tokens(pairs[i][1]) \o <<"'", ":", " ">> \o PyRepr(pairs[i][2])])

\* the escapes json.dumps writes inside a string
JsonEscape(toks) ==
    Replace(Replace(Replace(toks, "\\", <<"\\", "\\">>), "\"", <<"\\", "\"">>),
            "\n", <<"\\", "n">>)

\* json.dumps(v, indent=2), the text at nesting level level
RECURSIVE Indent(_)
Indent(level) == IF level = 0 THEN <<>> ELSE <<" ", " ">> \o Indent(level - 1)

RECURSIVE DumpsAt(_, _)
RECURSIVE DumpsElems(_, _)
RECURSIVE DumpsPairs(_, _)
DumpsAt(v, level) ==
    CASE v.k = "null" -> <<"null">>
      [] v.k = "bool" -> IF v.b THEN <<"true">> ELSE <<"false">>
      [] v.k = "int" -> <<ToString(v.i)>>
      [] v.k = "str" -> <<"\"">> \o JsonEscape(v.s) \o <<"\"">>
      [] v.k = "list" ->
            IF v.l = <<>> THEN <<"[", "]">>
            ELSE <<"[", "\n">> \o DumpsElems(v.l, level + 1)
                 \o <<"\n">> \o Indent(level) \o <<"]">>
      [] v.k = "dict" ->
            IF v.d = <<>> THEN <<"{", "}">>
            ELSE <<"{", "\n">> \o DumpsPairs(v.d, level + 1)
                 \o <<"\n">> \o Indent(level) \o <<"}">>

DumpsElems(elems, level) ==
    Join([i \in 1..Len(elems) |-> Indent(level) \o DumpsAt(elems[i], level)], <<",", "\n">>)

DumpsPairs(pairs, level) ==
    Join([i \in 1..Len(pairs) |->
            Indent(level) \o <<"\"">> \o Tokens(pairs[i][1]) \o <<"\"", ":", " ">>
            \o DumpsAt(pairs[i][2], level)], <<",", "\n">>)

Dumps(v) == DumpsAt(v, 0)

----------------------------------------------------------------------------
(* Reference resolution *)

\* the loop of _resolve_ref: obj = obj.get(part), KeyError on None
RECURSIVE ResolveParts(_, _)
ResolveParts(obj, parts) ==
    IF parts = <<>> THEN obj
    ELSE IF ~IsDict(obj) THEN Raise("AttributeError")
    ELSE LET nxt == Get(obj, parts[1])
         IN  IF IsNone(nxt) THEN Raise("KeyError")
             ELSE ResolveParts(nxt, Tail(parts))

_resolve_ref(ref_path) ==
    IF ~IsStr(ref_path) THEN Raise("AttributeError")
    ELSE ResolveParts(OAS, Split(RemovePair(ref_path.s, "#", "/"), "/"))

\* the interpreter's recursion limit, counted in references: how many
\* references _resolve_all_refs follows one inside another before Python
\* raises RecursionError
RecursionLimit == 6

RECURSIVE ResolveAllRefsAt(_, _)
RECURSIVE ResolveValues(_, _)
RECURSIVE ResolveElems(_, _)

\* a _resolve_all_refs that returns the target of a $ref as it stands
MutResolveTargetAsIs(obj, depth) ==
    IF depth > RecursionLimit THEN Raise("RecursionError")
    ELSE IF IsDict(obj) THEN
        IF Has(obj, "$ref") THEN _resolve_ref(Item(obj, "$ref"))
        ELSE ResolveValues(obj.d, depth)
    ELSE IF IsList(obj) THEN ResolveElems(obj.l, depth)
    ELSE obj

\* a _resolve_all_refs that does not walk into lists
MutResolveElemsKept(elems, depth) == JList(elems)

\* _resolve_all_refs called inside `depth` references
ResolveAllRefsAt(obj, depth) ==
    IF depth > RecursionLimit THEN Raise("RecursionError")
    ELSE IF IsDict(obj) THEN
        IF Has(obj, "$ref")
        THEN LET target == _resolve_ref(Item(obj, "$ref"))
             IN  IF IsErr(target) THEN target
                 ELSE ResolveAllRefsAt(target, depth + 1)
        ELSE ResolveValues(obj.d, depth)
    ELSE IF IsList(obj) THEN ResolveElems(obj.l, depth)
    ELSE obj

\* {k: _resolve_all_refs(v) for k, v in obj.items()}
ResolveValues(pairs, depth) ==
    IF pairs = <<>> THEN JDict(<<>>)
    ELSE LET v == ResolveAllRefsAt(pairs[1][2], depth)
         IN  IF IsErr(v) THEN v
             ELSE LET rest == ResolveValues(Tail(pairs), depth)
                  IN  IF IsErr(rest) THEN rest
                      ELSE JDict(<< <<pairs[1][1], v>> >> \o rest.d)

\* [_resolve_all_refs(item) for item in obj]
ResolveElems(elems, depth) ==
    IF elems = <<>> THEN JList(<<>>)
    ELSE LET v == ResolveAllRefsAt(elems[1], depth)
         IN  IF IsErr(v) THEN v
             ELSE LET rest == ResolveElems(Tail(elems), depth)
                  IN  IF IsErr(rest) THEN rest
                      ELSE JList(<<v>> \o rest.l)

_resolve_all_refs(obj) == ResolveAllRefsAt(obj, 0)

----------------------------------------------------------------------------
(* Example synthesis *)

\* a for loop over a v that is no list, whose body takes each element for a
\* schema: None, a number or a bool cannot be iterated; a str or a dict yields
\* strs, which have no get; an empty one yields nothing and leaves `result`
IterOther(v, result) ==
    IF v.k \in {"null", "int", "bool"} THEN Raise("TypeError")
    ELSE IF Truthy(v) THEN Raise("AttributeError")
    ELSE result

\* _build_primitive_example
_build_primitive_example(schema) ==
    IF Has(schema, "example") THEN Item(schema, "example")
    ELSE IF Has(schema, "enum") THEN
        LET enum == Item(schema, "enum")
        IN  CASE IsList(enum) -> IF enum.l = <<>> THEN Raise("IndexError") ELSE enum.l[1]
              [] IsDict(enum) -> Raise("KeyError")
              [] IsStr(enum) -> IF enum.s = <<>> THEN Raise("IndexError")
                                ELSE JStr(<<enum.s[1]>>)
              [] OTHER -> Raise("TypeError")
    ELSE LET type == Get(schema, "type")
         IN  CASE type \in {W("string")} -> W("<string>")
               [] type \in {W("number"), W("integer")} -> JInt(0)
               [] type \in {W("boolean")} -> JBool(FALSE)
               [] type.k \in {"list", "dict"} -> Raise("TypeError")
               [] OTHER -> W("<value>")

RECURSIVE _build_example_from_schema(_, _)
RECURSIVE _build_object_example(_, _)
RECURSIVE BuildAllOf(_, _, _)
RECURSIVE BuildProperties(_, _, _)

\* a _build_object_example that keeps readOnly properties whatever the flag
MutObjectKeepsReadOnly(schema, ignore_readonly) ==
    LET properties == GetOr(schema, "properties", JDict(<<>>))
    IN  IF ~IsDict(properties) THEN Raise("AttributeError")
        ELSE BuildProperties(properties.d, FALSE, JDict(<<>>))

\* a merge of allOf examples in which the first branch to give a field wins
RECURSIVE MutAllOfFirstWins(_, _, _)
MutAllOfFirstWins(subs, ignore_readonly, result) ==
    IF subs = <<>> THEN result
    ELSE LET sub_result == _build_example_from_schema(subs[1], ignore_readonly)
         IN  IF IsErr(sub_result) THEN sub_result
             ELSE MutAllOfFirstWins(Tail(subs), ignore_readonly,
                      IF IsDict(sub_result) THEN Update(sub_result, result) ELSE result)

\* the loop over schema['allOf'] of _build_example_from_schema
BuildAllOf(subs, ignore_readonly, result) ==
    IF subs = <<>> THEN result
    ELSE LET sub_result == _build_example_from_schema(subs[1], ignore_readonly)
         IN  IF IsErr(sub_result) THEN sub_result
             ELSE BuildAllOf(Tail(subs), ignore_readonly,
                      IF IsDict(sub_result) THEN Update(result, sub_result) ELSE result)

\* the loop over properties.items() of _build_object_example
BuildProperties(props, ignore_readonly, result) ==
    IF props = <<>> THEN result
    ELSE LET prop_name == props[1][1]
             prop_schema == props[1][2]
         IN  IF ignore_readonly /\ ~IsDict(prop_schema) THEN Raise("AttributeError")
             ELSE IF ignore_readonly /\ Truthy(GetOr(prop_schema, "readOnly", JBool(FALSE)))
             THEN BuildProperties(Tail(props), ignore_readonly, result)
             ELSE LET v == _build_example_from_schema(prop_schema, ignore_readonly)
                  IN  IF IsErr(v) THEN v
                      ELSE BuildProperties(Tail(props), ignore_readonly,
                                           SetItem(result, prop_name, v))

_build_object_example(schema, ignore_readonly) ==
    LET properties == GetOr(schema, "properties", JDict(<<>>))
    IN  IF ~IsDict(properties) THEN Raise("AttributeError")
        ELSE BuildProperties(properties.d, ignore_readonly, JDict(<<>>))

_build_example_from_schema(schema, ignore_readonly) ==
    IF ~Truthy(schema) THEN None
    ELSE LET resolved == _resolve_all_refs(schema)
         IN  IF IsErr(resolved) THEN resolved
             ELSE IF ~IsDict(resolved) THEN
                 (IF resolved.k \in {"str", "list"} THEN Raise("AttributeError")
                  ELSE Raise("TypeError"))
             ELSE IF Has(resolved, "allOf") THEN
                 LET subs == Item(resolved, "allOf")
                 IN  IF IsList(subs) THEN BuildAllOf(subs.l, ignore_readonly, JDict(<<>>))
                     ELSE IterOther(subs, JDict(<<>>))
             ELSE LET schema_type == Get(resolved, "type")
                  IN  IF schema_type = W("object")
                      THEN _build_object_example(resolved, ignore_readonly)
                      ELSE IF schema_type = W("array")
                      THEN LET item == _build_example_from_schema(
                                           GetOr(resolved, "items", JDict(<<>>)), ignore_readonly)
                           IN  IF IsErr(item) THEN item ELSE JList(<<item>>)
                      ELSE _build_primitive_example(resolved)

----------------------------------------------------------------------------
(* Schema normalization *)

\* the elements of elems without repetition, in order of first occurrence
RECURSIVE Dedupe(_)
Dedupe(elems) ==
    IF elems = <<>> THEN <<>>
    ELSE LET init == Dedupe(SubSeq(elems, 1, Len(elems) - 1))
             last == elems[Len(elems)]
         IN  IF \E i \in 1..Len(init) : init[i] = last THEN init
             ELSE Append(init, last)

Reverse(elems) == [i \in 1..Len(elems) |-> elems[Len(elems) + 1 - i]]

\* list(set(elems)): a list or a dict cannot be a member of a set; the order
\* a set of strs iterates in depends on the process's hash seed
ListOfSet(elems) ==
    IF \E i \in 1..Len(elems) : elems[i].k \in {"list", "dict"} THEN Raise("TypeError")
    ELSE IF hashSeed = 0 THEN JList(Dedupe(elems))
    ELSE JList(Reverse(Dedupe(elems)))

HashSeeds == {0, 1}

\* the pairs of d whose key is not in `drop`
RECURSIVE Without(_, _)
Without(pairs, drop) ==
    IF pairs = <<>> THEN <<>>
    ELSE IF pairs[1][1] \in drop THEN Without(Tail(pairs), drop)
         ELSE <<pairs[1]>> \o Without(Tail(pairs), drop)

RECURSIVE _normalize_schema(_)
RECURSIVE MergeAllOf(_, _, _, _)
RECURSIVE FirstWithProperties(_, _)
RECURSIVE NormalizeProperties(_)

\* an allOf merge in which the first branch to define a property wins
RECURSIVE MutMergeFirstWins(_, _, _, _)
MutMergeFirstWins(subs, merged, merged_properties, merged_required) ==
    IF subs = <<>> THEN
        LET m1 == IF Truthy(merged_properties)
                  THEN SetItem(merged, "properties", merged_properties) ELSE merged
        IN  IF merged_required = <<>> THEN m1
            ELSE IF IsErr(ListOfSet(merged_required)) THEN ListOfSet(merged_required)
            ELSE SetItem(m1, "required", ListOfSet(merged_required))
    ELSE LET normalized_sub == _normalize_schema(subs[1])
         IN  IF IsErr(normalized_sub) THEN normalized_sub
             ELSE IF ~IsDict(normalized_sub)
             THEN MutMergeFirstWins(Tail(subs), merged, merged_properties, merged_required)
             ELSE MutMergeFirstWins(Tail(subs),
                     UpdatePairs(merged, Without(normalized_sub.d,
                                                 {"properties", "required", "allOf"})),
                     IF Has(normalized_sub, "properties")
                     THEN Update(Item(normalized_sub, "properties"), merged_properties)
                     ELSE merged_properties,
                     IF Has(normalized_sub, "required")
                     THEN merged_required \o Item(normalized_sub, "required").l
                     ELSE merged_required)

\* the allOf branch of _normalize_schema: the loop over schema['allOf'], then
\* the assembly of merged
MergeAllOf(subs, merged, merged_properties, merged_required) ==
    IF subs = <<>> THEN
        LET m1 == IF Truthy(merged_properties)
                  THEN SetItem(merged, "properties", merged_properties) ELSE merged
        IN  IF merged_required = <<>> THEN m1
            ELSE IF IsErr(ListOfSet(merged_required)) THEN ListOfSet(merged_required)
            ELSE SetItem(m1, "required", ListOfSet(merged_required))
    ELSE LET normalized_sub == _normalize_schema(subs[1])
         IN  IF IsErr(normalized_sub) THEN normalized_sub
             ELSE IF ~IsDict(normalized_sub)
             THEN MergeAllOf(Tail(subs), merged, merged_properties, merged_required)
             ELSE IF Has(normalized_sub, "properties")
                     /\ ~IsDict(Item(normalized_sub, "properties"))
             THEN Raise("TypeError")
             ELSE IF Has(normalized_sub, "required")
                     /\ ~IsList(Item(normalized_sub, "required"))
             THEN Raise("TypeError")
             ELSE MergeAllOf(Tail(subs),
                     UpdatePairs(merged, Without(normalized_sub.d,
                                                 {"properties", "required", "allOf"})),
                     IF Has(normalized_sub, "properties")
                     THEN Update(merged_properties, Item(normalized_sub, "properties"))
                     ELSE merged_properties,
                     IF Has(normalized_sub, "required")
                     THEN merged_required \o Item(normalized_sub, "required").l
                     ELSE merged_required)

\* the anyOf/oneOf loop taking the last branch with properties, not the first
RECURSIVE MutLastWithProperties(_, _)
MutLastWithProperties(subs, schemas) ==
    IF subs = <<>> THEN _normalize_schema(schemas[1])
    ELSE LET normalized_sub == _normalize_schema(subs[Len(subs)])
         IN  IF IsDict(normalized_sub) /\ Has(normalized_sub, "properties")
             THEN normalized_sub
             ELSE MutLastWithProperties(SubSeq(subs, 1, Len(subs) - 1), schemas)

\* the anyOf/oneOf loop of _normalize_schema: the first branch whose
\* normalization has properties, else the normalization of schemas[0]
FirstWithProperties(subs, schemas) ==
    IF subs = <<>> THEN _normalize_schema(schemas[1])
    ELSE LET normalized_sub == _normalize_schema(subs[1])
         IN  IF IsErr(normalized_sub) THEN normalized_sub
             ELSE IF IsDict(normalized_sub) /\ Has(normalized_sub, "properties")
             THEN normalized_sub
             ELSE FirstWithProperties(Tail(subs), schemas)

\* the loop over schema['properties'].items() of _normalize_schema
NormalizeProperties(props) ==
    IF props = <<>> THEN JDict(<<>>)
    ELSE LET init == NormalizeProperties(SubSeq(props, 1, Len(props) - 1))
             last == props[Len(props)]
         IN  IF IsErr(init) THEN init
             ELSE LET v == _normalize_schema(last[2])
                  IN  IF IsErr(v) THEN v ELSE SetItem(init, last[1], v)

_normalize_schema(schema) ==
    IF ~IsDict(schema) THEN schema
    ELSE IF Has(schema, "allOf") THEN
        LET subs == Item(schema, "allOf")
        IN  IF IsList(subs) THEN MergeAllOf(subs.l, JDict(<<>>), JDict(<<>>), <<>>)
            ELSE IF subs.k \in {"null", "int", "bool"} THEN Raise("TypeError")
            ELSE JDict(<<>>)
    ELSE IF Has(schema, "anyOf") \/ Has(schema, "oneOf") THEN
        LET anyOf == Get(schema, "anyOf")
            schemas == IF Truthy(anyOf) THEN anyOf ELSE Get(schema, "oneOf")
        IN  IF IsList(schemas) THEN
                IF schemas.l = <<>> THEN schema
                ELSE FirstWithProperties(schemas.l, schemas.l)
            ELSE IF schemas.k \in {"null", "int", "bool"} THEN Raise("TypeError")
            ELSE IF ~Truthy(schemas) THEN schema
            ELSE IF IsStr(schemas) THEN JStr(<<schemas.s[1]>>)
            ELSE Raise("KeyError")
    ELSE IF Has(schema, "properties") THEN
        LET properties == Item(schema, "properties")
        IN  IF ~IsDict(properties) THEN Raise("AttributeError")
            ELSE LET normalized_props == NormalizeProperties(properties.d)
                 IN  IF IsErr(normalized_props) THEN normalized_props
                     ELSE SetItem(schema, "properties", normalized_props)
    ELSE schema

----------------------------------------------------------------------------
(* Markdown tables *)

\* re.sub(r'\s+', ' ', toks)
CollapseSpaces(toks) ==
    Flatten([i \in 1..Len(toks) |->
               IF toks[i] \notin Whitespace THEN <<toks[i]>>
               ELSE IF i > 1 /\ toks[i - 1] \in Whitespace THEN <<>>
               ELSE <<" ">>])

\* _clean_description
_clean_description(description) ==
    IF ~Truthy(description) THEN JStr(<<>>)
    ELSE IF ~IsStr(description) THEN Raise("AttributeError")
    ELSE JStr(Strip(Replace(CollapseSpaces(Replace(description.s, "\n", <<" ">>)),
                            "|", <<"\\", "|">>)))

\* the token of the back-tick character, which a TLA+ string cannot hold
BackTick == "<backtick>"

\* the most enum values a cell lists
limit == 10

\* the enum values, each quoted by back-ticks, joined by ', '
Quoted(enum) ==
    Listed([i \in 1..Len(enum) |-> <<BackTick>> \o PyStr(enum[i]) \o <<BackTick>>])

\* _get_enum_values cutting the list at limit values with '<', not '<='
MutEnumValuesBelowLimit(field_schema) ==
    LET enum == Get(field_schema, "enum")
    IN  IF ~Truthy(enum) THEN JStr(<<>>)
        ELSE IF ~IsList(enum) THEN Raise("TypeError")
        ELSE IF Len(enum.l) < limit THEN JStr(Quoted(enum.l))
        ELSE JStr(Quoted(SubSeq(enum.l, 1, limit))
                  \o <<",", " ", "...", " ", "(", "+", ToString(Len(enum.l) - limit),
                       " ", "more", ")">>)

\* _get_enum_values, enum a list when it is there
_get_enum_values(field_schema) ==
    LET enum == Get(field_schema, "enum")
    IN  IF ~Truthy(enum) THEN JStr(<<>>)
        ELSE IF ~IsList(enum) THEN Raise("TypeError")
        ELSE IF Len(enum.l) <= limit THEN JStr(Quoted(enum.l))
        ELSE JStr(Quoted(SubSeq(enum.l, 1, limit))
                  \o <<",", " ", "...", " ", "(", "+", ToString(Len(enum.l) - limit),
                       " ", "more", ")">>)

\* _get_field_type: the type as the row's f-string prints it
_get_field_type(field_schema) ==
    LET declared == GetOr(field_schema, "type", W("any"))
        field_type == IF declared = W("any") /\ Has(field_schema, "properties")
                      THEN W("object") ELSE declared
    IN  IF field_type = W("array") THEN
            LET normalized_items == _normalize_schema(GetOr(field_schema, "items", JDict(<<>>)))
            IN  IF IsErr(normalized_items) THEN normalized_items
                ELSE IF ~IsDict(normalized_items) THEN Raise("AttributeError")
                ELSE JStr(<<"array", "[">>
                          \o PyStr(GetOr(normalized_items, "type", W("any"))) \o <<"]">>)
        ELSE LET field_format == Get(field_schema, "format")
             IN  IF Truthy(field_format)
                 THEN JStr(PyStr(field_type) \o <<"(">> \o PyStr(field_format) \o <<")">>)
                 ELSE JStr(PyStr(field_type))

\* 'properties' in v
InProperties(v) ==
    IF IsDict(v) THEN JBool(Has(v, "properties"))
    ELSE IF v.k \in {"str", "list"} THEN JBool(FALSE)
    ELSE Raise("TypeError")

\* rows.extend(more): more is not computed once rows has raised
Extended(rows, more) ==
    IF IsErr(rows) THEN rows
    ELSE IF IsErr(more) THEN more
    ELSE JList(rows.l \o more.l)

\* the f-string of one row, its cells computed in this order
Row(full_name, field_type, enum_values, description) ==
    IF IsErr(field_type) THEN field_type
    ELSE IF IsErr(enum_values) THEN enum_values
    ELSE IF IsErr(description) THEN description
    ELSE JList(<< JStr(<<"|", " ", BackTick>> \o full_name \o <<BackTick, " ", "|", " ">>
                       \o field_type.s \o <<" ", "|", " ">>
                       \o enum_values.s \o <<" ", "|", " ">>
                       \o description.s \o <<" ", "|">>) >>)

RECURSIVE _build_field_rows(_, _, _, _)
RECURSIVE FieldRows(_, _, _)

\* the rows of the properties of the normalized items of an array field
ItemRows(items_schema, include_readonly, full_name) ==
    IF IsErr(items_schema) THEN items_schema
    ELSE IF IsErr(InProperties(items_schema)) THEN InProperties(items_schema)
    ELSE IF InProperties(items_schema).b
    THEN _build_field_rows(Item(items_schema, "properties"),
                           GetOr(items_schema, "required", JList(<<>>)),
                           include_readonly, full_name \o <<"[", "]", ".">>)
    ELSE JList(<<>>)

\* the rows of one normalized field of _build_field_rows: its own row, the
\* rows of its nested properties, the rows of its array items
RowsOfField(normalized_field, include_readonly, full_name) ==
    IF IsErr(normalized_field) THEN normalized_field
    ELSE IF ~IsDict(normalized_field) THEN Raise("AttributeError")
    ELSE IF ~include_readonly /\ Truthy(GetOr(normalized_field, "readOnly", JBool(FALSE)))
    THEN JList(<<>>)
    ELSE Extended(
           Extended(
             Row(full_name,
                 _get_field_type(normalized_field),
                 _get_enum_values(normalized_field),
                 _clean_description(GetOr(normalized_field, "description", JStr(<<>>)))),
             IF Has(normalized_field, "properties")
             THEN _build_field_rows(Item(normalized_field, "properties"),
                                    GetOr(normalized_field, "required", JList(<<>>)),
                                    include_readonly, full_name \o <<".">>)
             ELSE JList(<<>>)),
           IF Get(normalized_field, "type") = W("array") /\ Has(normalized_field, "items")
           THEN ItemRows(_normalize_schema(Item(normalized_field, "items")),
                         include_readonly, full_name)
           ELSE JList(<<>>))

\* the body of the loop of _build_field_rows, field a pair of properties
FieldRows(field, include_readonly, prefix) ==
    RowsOfField(_normalize_schema(field[2]), include_readonly, prefix \o Tokens(field[1]))

\* the loop over properties.items() of _build_field_rows
RECURSIVE RowsOf(_, _, _)
RowsOf(props, include_readonly, prefix) ==
    IF props = <<>> THEN JList(<<>>)
    ELSE Extended(FieldRows(props[1], include_readonly, prefix),
                  RowsOf(Tail(props), include_readonly, prefix))

\* _build_field_rows: required_fields is taken and never looked at
_build_field_rows(properties, required_fields, include_readonly, prefix) ==
    IF ~IsDict(properties) THEN Raise("AttributeError")
    ELSE RowsOf(properties.d, include_readonly, prefix)

\* the strs of a list of strs
Lines(rows) == [i \in 1..Len(rows) |-> rows[i].s]

\* the table of the rows: two header lines, then the rows
Table(rows) ==
    IF IsErr(rows) THEN rows
    ELSE JStr(Join(<< <<"|", " ", "Field", " ", "|", " ", "Type", " ", "|", " ",
                        "Enum", " ", "Values", " ", "|", " ", "Description", " ", "|">>,
                      <<"|", "-------", "|", "------", "|", "-------------",
                        "|", "-------------", "|">> >>
                   \o Lines(rows.l), <<"\n">>))

\* _get_table_from_schema from the normalized schema on
TableOf(normalized_schema, include_readonly) ==
    IF IsErr(normalized_schema) THEN normalized_schema
    ELSE IF ~IsDict(normalized_schema) THEN Raise("AttributeError")
    ELSE LET required_fields == GetOr(normalized_schema, "required", JList(<<>>))
             properties == GetOr(normalized_schema, "properties", JDict(<<>>))
         IN  IF ~Truthy(properties) THEN JStr(<<>>)
             ELSE Table(_build_field_rows(properties, required_fields, include_readonly, <<>>))

\* _get_table_from_schema
_get_table_from_schema(body_schema, include_readonly) ==
    IF ~Truthy(body_schema) \/ ~IsDict(body_schema) THEN JStr(<<>>)
    ELSE LET content == GetOr(body_schema, "content", JDict(<<>>))
         IN  IF ~Truthy(content) THEN JStr(<<>>)
             ELSE IF ~IsDict(content) \/ ~IsDict(content.d[1][2]) THEN Raise("AttributeError")
             ELSE LET schema == GetOr(content.d[1][2], "schema", JDict(<<>>))
                  IN  IF ~Truthy(schema) THEN JStr(<<>>)
                      ELSE TableOf(_normalize_schema(schema), include_readonly)

----------------------------------------------------------------------------
(* Parameters and request bodies *)

\* the first exception among the values vals, in the order they are computed
AnyErr(vals) == \E i \in 1..Len(vals) : IsErr(vals[i])
FirstErr(vals) ==
    vals[CHOOSE i \in 1..Len(vals) : IsErr(vals[i]) /\ \A j \in 1..(i - 1) : ~IsErr(vals[j])]

\* toks.split(sep): the pieces between the separators, each a token sequence
RECURSIVE SplitToksFrom(_, _, _)
SplitToksFrom(toks, sep, piece) ==
    IF toks = <<>> THEN <<piece>>
    ELSE IF toks[1] = sep
         THEN <<piece>> \o SplitToksFrom(Tail(toks), sep, <<>>)
         ELSE SplitToksFrom(Tail(toks), sep, Append(piece, toks[1]))

SplitToks(toks, sep) == SplitToksFrom(toks, sep, <<>>)

\* _resolve_request_path, path the key of OAS['paths']
_resolve_request_path(path) ==
    LET pieces == SplitToks(Replace(Replace(Tokens(path), "{", <<":">>), "}", <<>>), "/")
    IN  JList([i \in 1..(Len(pieces) - 1) |-> JStr(pieces[i + 1])])

\* _resolve_param
_resolve_param(param) ==
    IF IsDict(param) /\ Has(param, "$ref") THEN _resolve_ref(Item(param, "$ref"))
    ELSE IF IsStr(param) THEN _resolve_ref(param)
    ELSE param

\* ','.join(map(str, example))
JoinStrs(elems) == Join([i \in 1..Len(elems) |-> PyStr(elems[i])], <<",">>)

Markdown(content) ==
    JDict(<< <<"content", content>>, <<"type", JStr(<<"text", "/", "markdown">>)>> >>)

\* _build_postman_param
_build_postman_param(param_obj) ==
    IF IsNone(param_obj) \/ ~IsDict(param_obj) THEN Raise("AttributeError")
    ELSE LET schema == IF Truthy(param_obj) THEN GetOr(param_obj, "schema", JDict(<<>>))
                       ELSE JDict(<<>>)
             example == IF Truthy(param_obj) THEN GetOr(param_obj, "example", JStr(<<>>))
                        ELSE JStr(<<>>)
             value == IF IsList(example) THEN JStr(JoinStrs(example.l))
                      ELSE JStr(PyStr(example))
         IN  IF ~IsDict(schema) THEN Raise("AttributeError")
             ELSE JDict(<< <<"key", Held(Get(param_obj, "name"))>>,
                           <<"value", value>>,
                           <<"type", Held(Get(schema, "type"))>>,
                           <<"disabled", JBool(~Truthy(GetOr(param_obj, "required", JBool(FALSE))))>>,
                           <<"description", Markdown(GetOr(param_obj, "description", JStr(<<>>)))>> >>)

\* _build_postman_param(resolved_param), not called once _resolve_param has
\* raised
ParamOf(resolved_param) ==
    IF IsErr(resolved_param) THEN resolved_param
    ELSE _build_postman_param(resolved_param)

RECURSIVE ExtractLoop(_, _, _)

\* the end of the loop body of _extract_parameters: param_obj goes to the
\* query or to the path parameters
Categorized(resolved_param, param_obj, params, path_params, query_params) ==
    IF IsErr(param_obj) THEN param_obj
    ELSE IF Get(resolved_param, "in") = W("query")
    THEN ExtractLoop(Tail(params), path_params, Append(query_params, param_obj))
    ELSE ExtractLoop(Tail(params), Append(path_params, param_obj), query_params)

\* the loop of _extract_parameters
ExtractLoop(params, path_params, query_params) ==
    IF params = <<>>
    THEN JDict(<< <<"path", JList(path_params)>>, <<"query", JList(query_params)>> >>)
    ELSE Categorized(_resolve_param(params[1]), ParamOf(_resolve_param(params[1])),
                     params, path_params, query_params)

\* _extract_parameters: a dict is iterated by its keys
_extract_parameters(params) ==
    IF IsList(params) THEN ExtractLoop(params.l, <<>>, <<>>)
    ELSE IF IsDict(params)
    THEN ExtractLoop([i \in 1..Len(params.d) |-> JStr(Tokens(params.d[i][1]))], <<>>, <<>>)
    ELSE IF IsStr(params)
    THEN (IF params.s = <<>> THEN ExtractLoop(<<>>, <<>>, <<>>) ELSE Raise("KeyError"))
    ELSE Raise("TypeError")

\* _get_field_example_value
_get_field_example_value(field_schema) ==
    IF Has(field_schema, "example") THEN JStr(PyStr(Item(field_schema, "example")))
    ELSE IF Has(field_schema, "enum") THEN
        LET first == _build_primitive_example(JDict(<< <<"enum", Item(field_schema, "enum")>> >>))
        IN  IF IsErr(first) THEN first ELSE JStr(PyStr(first))
    ELSE LET type == Get(field_schema, "type")
         IN  CASE type = W("string") -> W("<string>")
               [] type \in {W("number"), W("integer")} -> W("0")
               [] type = W("boolean") -> W("false")
               [] type.k \in {"list", "dict"} -> Raise("TypeError")
               [] OTHER -> JStr(<<>>)

\* field_name not in required_fields
NotRequired(field_name, required_fields) ==
    IF IsList(required_fields)
    THEN JBool(~\E i \in 1..Len(required_fields.l) :
                   required_fields.l[i] = JStr(Tokens(field_name)))
    ELSE IF IsDict(required_fields) THEN JBool(~Has(required_fields, field_name))
    ELSE IF IsStr(required_fields) THEN JBool(required_fields.s # Tokens(field_name))
    ELSE Raise("TypeError")

\* the dict of a field that is not a file, its values computed in this order
TextField(field_name, field_schema, value, disabled) ==
    IF IsErr(value) THEN value
    ELSE IF IsErr(disabled) THEN disabled
    ELSE JDict(<< <<"key", JStr(Tokens(field_name))>>,
                  <<"value", value>>,
                  <<"type", W("text")>>,
                  <<"disabled", disabled>>,
                  <<"description", GetOr(field_schema, "description", JStr(<<>>))>> >>)

\* the body of the loop of _build_form_fields
FormField(field_name, field_schema, required_fields) ==
    IF ~IsDict(field_schema) THEN Raise("AttributeError")
    ELSE IF Get(field_schema, "format") = W("binary")
    THEN JDict(<< <<"key", JStr(Tokens(field_name))>>,
                  <<"type", W("file")>>,
                  <<"src", JList(<<>>)>>,
                  <<"description", GetOr(field_schema, "description", JStr(<<>>))>> >>)
    ELSE TextField(field_name, field_schema,
                   _get_field_example_value(field_schema),
                   NotRequired(field_name, required_fields))

\* list.append in a loop, as [first] + rest: rest is not computed once first
\* has raised
Prepended(first, rest) ==
    IF IsErr(first) THEN first
    ELSE IF IsErr(rest) THEN rest
    ELSE JList(<<first>> \o rest.l)

\* the loop over properties.items() of _build_form_fields
RECURSIVE FormFields(_, _)
FormFields(props, required_fields) ==
    IF props = <<>> THEN JList(<<>>)
    ELSE Prepended(FormField(props[1][1], props[1][2], required_fields),
                   FormFields(Tail(props), required_fields))

\* _build_form_fields
_build_form_fields(schema) ==
    IF ~Truthy(schema) THEN JList(<<>>)
    ELSE IF ~IsDict(schema) THEN Raise("AttributeError")
    ELSE IF Get(schema, "type") # W("object") THEN JList(<<>>)
    ELSE LET properties == GetOr(schema, "properties", JDict(<<>>))
             required_fields == GetOr(schema, "required", JList(<<>>))
         IN  IF ~IsDict(properties) THEN Raise("AttributeError")
             ELSE FormFields(properties.d, required_fields)

\* the dict _build_form_body returns for the fields
FormBody(form_fields, mode) ==
    IF IsErr(form_fields) THEN form_fields
    ELSE IF mode = "formdata"
    THEN JDict(<< <<"mode", W(mode)>>, <<"formdata", form_fields>> >>)
    ELSE JDict(<< <<"mode", W(mode)>>, <<"urlencoded", form_fields>> >>)

\* _build_form_body
_build_form_body(schema, mode) == FormBody(_build_form_fields(schema), mode)

\* the dict _build_raw_body returns for the example
RawBody(example_data) ==
    IF IsErr(example_data) THEN example_data
    ELSE JDict(<< <<"mode", W("raw")>>,
                  <<"raw", JStr(Dumps(example_data))>>,
                  <<"options", JDict(<< <<"raw",
                       JDict(<< <<"language", W("json")>> >>)>> >>)>> >>)

\* _build_raw_body
_build_raw_body(schema) == RawBody(_build_example_from_schema(schema, TRUE))

\* mode_map.get(content_type, 'raw')
mode_map(content_type) ==
    CASE content_type = "application/json" -> "raw"
      [] content_type = "multipart/form-data" -> "formdata"
      [] content_type = "application/x-www-form-urlencoded" -> "urlencoded"
      [] OTHER -> "raw"

\* _resolve_request_body from the dereferenced schema on
BodyOf(resolved_schema, mode) ==
    IF IsErr(resolved_schema) THEN resolved_schema
    ELSE IF mode = "raw" THEN _build_raw_body(resolved_schema)
    ELSE _build_form_body(resolved_schema, mode)

\* _resolve_request_body
_resolve_request_body(request_body) ==
    IF ~Truthy(request_body) THEN None
    ELSE IF ~IsDict(request_body) THEN Raise("AttributeError")
    ELSE LET content == GetOr(request_body, "content", JDict(<<>>))
         IN  IF ~Truthy(content) THEN None
             ELSE IF ~IsDict(content) \/ ~IsDict(content.d[1][2]) THEN Raise("AttributeError")
             ELSE BodyOf(_resolve_all_refs(GetOr(content.d[1][2], "schema", JDict(<<>>))),
                         mode_map(content.d[1][1]))

----------------------------------------------------------------------------
(* Responses *)

\* int(status_code), status_code a key of a responses mapping
IntOf(status_code) ==
    CASE status_code = "200" -> JInt(200)
      [] status_code = "201" -> JInt(201)
      [] status_code = "204" -> JInt(204)
      [] status_code = "299" -> JInt(299)
      [] status_code = "400" -> JInt(400)
      [] status_code = "404" -> JInt(404)
      [] status_code = "500" -> JInt(500)
      [] status_code = "999" -> JInt(999)
      [] OTHER -> Raise("ValueError")

\* HTTPStatus(code).phrase, for the codes of the table that IntOf reads
HTTPStatus(code) ==
    CASE code = 200 -> JStr(<<"OK">>)
      [] code = 201 -> JStr(<<"Created">>)
      [] code = 204 -> JStr(<<"No", " ", "Content">>)
      [] code = 400 -> JStr(<<"Bad", " ", "Request">>)
      [] code = 404 -> JStr(<<"Not", " ", "Found">>)
      [] code = 500 -> JStr(<<"Internal", " ", "Server", " ", "Error">>)
      [] OTHER -> Raise("ValueError")

\* the try block of _resolve_responses
StatusText(status_code) ==
    IF IsErr(IntOf(status_code)) \/ IsErr(HTTPStatus(IntOf(status_code).i))
    THEN W("Unknown")
    ELSE HTTPStatus(IntOf(status_code).i)

\* _build_original_request
_build_original_request(method, path, params) ==
    JDict(<< <<"method", W(method)>>,
             <<"url", JDict(<< <<"host", JList(<<JStr(<<"{", "{", "baseUrl", "}", "}">>)>>)>>,
                               <<"path", _resolve_request_path(path)>>,
                               <<"variable", GetOr(params, "path", JList(<<>>))>>,
                               <<"query", GetOr(params, "query", JList(<<>>))>> >>)>>,
             <<"header", JList(<<
                  JDict(<< <<"key", W("Accept")>>,
                           <<"value", JStr(<<"application", "/", "json">>)>> >>),
                  JDict(<< <<"key", W("Authorization")>>,
                           <<"value", JStr(<<"Bearer", " ", "<token>">>)>> >>) >>)>>,
             <<"body", JDict(<<>>)>> >>)

\* the dict of one response example, its values computed in this order
Response(status_code, response_schema, content_type, response_body, code, method, path, params) ==
    IF IsErr(response_body) THEN response_body
    ELSE IF IsErr(code) THEN code
    ELSE JDict(<<
        <<"name", JStr(<<"[">> \o Tokens(status_code) \o <<"]", " ">>
                       \o PyStr(GetOr(response_schema, "description", JStr(<<>>))))>>,
        <<"originalRequest", _build_original_request(method, path, params)>>,
        <<"code", code>>,
        <<"status", StatusText(status_code)>>,
        <<"header", IF Truthy(content_type)
                    THEN JList(<<JDict(<< <<"key", W("Content-Type")>>,
                                          <<"value", content_type>> >>)>>)
                    ELSE JList(<<>>)>>,
        <<"body", IF Truthy(response_body) THEN JStr(Dumps(response_body))
                  ELSE JStr(<<>>)>>,
        <<"_postman_previewlanguage",
          IF content_type = JStr(<<"application", "/", "json">>)
          THEN W("json") ELSE W("text")>> >>)

\* _build_example_from_schema(resolved_schema, False), not called once
\* _resolve_all_refs has raised
ExampleOf(resolved_schema) ==
    IF IsErr(resolved_schema) THEN resolved_schema
    ELSE _build_example_from_schema(resolved_schema, FALSE)

\* the body of the loop of _resolve_responses from the resolved response on
ResponseOf(status_code, response_schema, method, path, params) ==
    IF IsErr(response_schema) THEN response_schema
    ELSE IF ~IsDict(response_schema) THEN Raise("AttributeError")
    ELSE
    LET content == GetOr(response_schema, "content", JDict(<<>>))
    IN  IF Truthy(content) /\ (~IsDict(content) \/ ~IsDict(content.d[1][2]))
        THEN Raise("AttributeError")
        ELSE Response(status_code, response_schema,
                      IF Truthy(content) THEN JStr(Tokens(content.d[1][1])) ELSE None,
                      IF ~Truthy(content) THEN None
                      ELSE ExampleOf(_resolve_all_refs(
                               GetOr(content.d[1][2], "schema", JDict(<<>>)))),
                      IntOf(status_code), method, path, params)

\* the body of the loop of _resolve_responses: the response example of one
\* status code
ResponseExample(status_code, declared, method, path, params) ==
    IF declared.k \in {"null", "int", "bool"} THEN Raise("TypeError")
    ELSE IF ~IsDict(declared) THEN Raise("AttributeError")
    ELSE ResponseOf(status_code,
                    IF Has(declared, "$ref") THEN _resolve_ref(Item(declared, "$ref"))
                    ELSE declared,
                    method, path, params)

\* the loop over oas_responses.items() of _resolve_responses
RECURSIVE ResponsesLoop(_, _, _, _)
ResponsesLoop(pairs, method, path, params) ==
    IF pairs = <<>> THEN JList(<<>>)
    ELSE Prepended(ResponseExample(pairs[1][1], pairs[1][2], method, path, params),
                   ResponsesLoop(Tail(pairs), method, path, params))

\* _resolve_responses
_resolve_responses(oas_responses, method, path, params) ==
    IF ~Truthy(oas_responses) THEN JList(<<>>)
    ELSE IF ~IsDict(oas_responses) THEN Raise("AttributeError")
    ELSE ResponsesLoop(oas_responses.d, method, path, params)

----------------------------------------------------------------------------
(* Request items *)

\* Two places of the collection can hold one and the same dict: an item
\* filed under several tags, a parameter listed in a request and in its
\* response examples.  The pair "@id" names the object a dict is; it is no
\* key of the Python dict and is not written to the output.
WithId(d, id) == JDict(Append(d.d, <<"@id", JStr(id)>>))

\* the parameter objects one call of _extract_parameters made, each its own
\* object
Minted(params, owner) ==
    LET OfKind(kind) ==
            JList([i \in 1..Len(Item(params, kind).l) |->
                     WithId(Item(params, kind).l[i], owner \o <<kind, ToString(i)>>)])
    IN  JDict(<< <<"path", OfKind("path")>>, <<"query", OfKind("query")>> >>)

methods == {"get", "post", "put", "patch", "delete", "options", "head"}

\* method.upper(), for the methods an item is built for
Upper(method) ==
    CASE method = "get" -> "GET"
      [] method = "post" -> "POST"
      [] method = "put" -> "PUT"
      [] method = "patch" -> "PATCH"
      [] method = "delete" -> "DELETE"
      [] method = "options" -> "OPTIONS"
      [] method = "head" -> "HEAD"

\* _add_item_to_folder, on the collection c
_add_item_to_folder(c, item, tag_name) ==
    LET folders == GetOr(c, "item", JList(<<>>)).l
        matching == {i \in 1..Len(folders) : Get(folders[i], "name") = tag_name}
    IN  IF matching = {} THEN c
        ELSE LET first == CHOOSE i \in matching : \A j \in matching : i <= j
                 folder == folders[first]
             IN  SetItem(c, "item",
                     JList([folders EXCEPT ![first] =
                              SetItem(folder, "item",
                                      JList(Append(Item(folder, "item").l, item)))]))

\* for tag in tags: _add_item_to_folder(item, tag)
RECURSIVE AddToFolders(_, _, _)
\* the loop over tags stopping after the first tag
MutAddToFirstTag(c, item, tags) ==
    IF tags = <<>> THEN c ELSE _add_item_to_folder(c, item, tags[1])

AddToFolders(c, item, tags) ==
    IF tags = <<>> THEN c
    ELSE AddToFolders(_add_item_to_folder(c, item, tags[1]), item, Tail(tags))

\* the item dict, its values computed in this order
Assembled(path, method, endpoint, all_params, body, joined, response) ==
    IF IsErr(body) THEN body
    ELSE IF IsErr(joined) THEN joined
    ELSE IF IsErr(response) THEN response
    ELSE WithId(
        JDict(<< <<"name", Held(GetOr(endpoint, "summary",
                                      JStr(<<Upper(method), " ">> \o Tokens(path))))>>,
                 <<"request", JDict(<<
                      <<"method", W(Upper(method))>>,
                      <<"url", JDict(<<
                           <<"host", JList(<<JStr(<<"{", "{", "baseUrl", "}", "}">>)>>)>>,
                           <<"path", _resolve_request_path(path)>>,
                           <<"variable", Item(all_params, "path")>>,
                           <<"query", Item(all_params, "query")>> >>)>>,
                      <<"body", body>>,
                      <<"description", Markdown(joined)>> >>)>>,
                 <<"response", response>> >>),
        Tokens(path) \o <<method, "item">>)

\* '\n\n'.join([description, '## Request Body:', ..., '## Response Body:',
\* ...]).strip()
Joined(description, request_body_table, response_body_table) ==
    IF ~IsStr(description) THEN Raise("TypeError")
    ELSE JStr(Strip(Join(<< description.s,
                            <<"##", " ", "Request", " ", "Body", ":">>,
                            request_body_table.s,
                            <<"##", " ", "Response", " ", "Body", ":">>,
                            response_body_table.s >>, <<"\n", "\n">>)))

\* the body of the inner loop of _build_postman_items from the two tables on
ItemOfTables(path, method, endpoint, all_params, request_body_table, response_body_table) ==
    IF IsErr(request_body_table) THEN request_body_table
    ELSE IF IsErr(response_body_table) THEN response_body_table
    ELSE Assembled(path, method, endpoint, all_params,
                   _resolve_request_body(Get(endpoint, "requestBody")),
                   Joined(GetOr(endpoint, "description", JStr(<<>>)),
                          request_body_table, response_body_table),
                   _resolve_responses(GetOr(endpoint, "responses", JDict(<<>>)),
                                      Upper(method), path, all_params))

\* _get_table_from_schema(schema, include_readonly) if schema else ''
TableIf(schema, include_readonly) ==
    IF Truthy(schema) THEN _get_table_from_schema(schema, include_readonly)
    ELSE JStr(<<>>)

\* the body of the inner loop of _build_postman_items from the two
\* dereferenced bodies on
ItemOfSchemas(path, method, endpoint, all_params, request_body_schema, response_body_schema) ==
    IF IsErr(request_body_schema) THEN request_body_schema
    ELSE IF IsErr(response_body_schema) THEN response_body_schema
    ELSE ItemOfTables(path, method, endpoint, all_params,
                      TableIf(request_body_schema, FALSE),
                      TableIf(response_body_schema, TRUE))

\* _resolve_all_refs(v) if v else None
ResolvedIf(v) == IF Truthy(v) THEN _resolve_all_refs(v) ELSE None

\* the dereferenced first response, None when there are no responses
FirstResponse(responses) ==
    IF ~Truthy(responses) THEN None
    ELSE IF ~IsDict(responses) THEN Raise("AttributeError")
    ELSE ResolvedIf(responses.d[1][2])

\* the body of the inner loop of _build_postman_items from the endpoint's
\* own parameters on
ItemOfParams(path, method, endpoint, path_level_params, endpoint_params) ==
    IF IsErr(endpoint_params) THEN endpoint_params
    ELSE ItemOfSchemas(path, method, endpoint,
             JDict(<< <<"path", JList(Item(path_level_params, "path").l
                                      \o Item(endpoint_params, "path").l)>>,
                      <<"query", JList(Item(path_level_params, "query").l
                                       \o Item(endpoint_params, "query").l)>> >>),
             ResolvedIf(Get(endpoint, "requestBody")),
             FirstResponse(GetOr(endpoint, "responses", JDict(<<>>))))

\* the parameter objects of one call of _extract_parameters, when it returned
MintedBy(extracted, owner) ==
    IF IsErr(extracted) THEN extracted ELSE Minted(extracted, owner)

\* the body of the inner loop of _build_postman_items up to the item: the
\* item of one endpoint
ItemOf(path, method, endpoint, path_level_params) ==
    IF ~IsDict(endpoint) THEN Raise("AttributeError")
    ELSE ItemOfParams(path, method, endpoint, path_level_params,
             MintedBy(_extract_parameters(GetOr(endpoint, "parameters", JList(<<>>))),
                      Tokens(path) \o <<method>>))

RECURSIVE EndpointsLoop(_, _, _, _)

\* the end of the body of the inner loop of _build_postman_items: the item
\* goes to the folders of its tags
Filed(c, item, tags, path, endpoints, path_level_params) ==
    IF IsErr(item) THEN [c |-> c, err |-> item]
    ELSE IF ~IsList(tags) THEN [c |-> c, err |-> Raise("TypeError")]
    ELSE EndpointsLoop(AddToFolders(c, item, tags.l), path, Tail(endpoints),
                       path_level_params)

\* the loop over path_obj.items() of _build_postman_items: the collection it
\* leaves, and the exception that ended it, if one did
EndpointsLoop(c, path, endpoints, path_level_params) ==
    IF endpoints = <<>> THEN [c |-> c, err |-> None]
    ELSE IF endpoints[1][1] \notin methods
    THEN EndpointsLoop(c, path, Tail(endpoints), path_level_params)
    ELSE Filed(c, ItemOf(path, endpoints[1][1], endpoints[1][2], path_level_params),
               GetOr(endpoints[1][2], "tags", JList(<<W("Others")>>)),
               path, endpoints, path_level_params)

RECURSIVE PathsLoop(_, _)

\* the loop over paths.items() goes on unless the inner loop raised
Continued(done, paths) ==
    IF IsErr(done.err) THEN done ELSE PathsLoop(done.c, Tail(paths))

\* the body of the loop over paths.items() from the path-level parameters on
PathOf(c, path, path_obj, extracted, paths) ==
    IF IsErr(extracted) THEN [c |-> c, err |-> extracted]
    ELSE Continued(EndpointsLoop(c, path, path_obj.d, Minted(extracted, Tokens(path))),
                   paths)

\* the loop over paths.items() of _build_postman_items
PathsLoop(c, paths) ==
    IF paths = <<>> THEN [c |-> c, err |-> None]
    ELSE PathOf(c, paths[1][1], paths[1][2],
                IF ~IsDict(paths[1][2]) THEN Raise("AttributeError")
                ELSE _extract_parameters(GetOr(paths[1][2], "parameters", JList(<<>>))),
                paths)

\* _build_postman_items
_build_postman_items(paths) ==
    IF ~IsDict(paths) THEN [c |-> POSTMAN_COLLECTION, err |-> Raise("AttributeError")]
    ELSE PathsLoop(POSTMAN_COLLECTION, paths.d)

----------------------------------------------------------------------------
(* Collection metadata *)

\* _build_postman_info: the collection after it
_build_postman_info(oas_info, collection_description) ==
    IF ~IsDict(oas_info) THEN Raise("AttributeError")
    ELSE SetItem(POSTMAN_COLLECTION, "info",
            JDict(<< <<"name", Held(Get(oas_info, "title"))>>,
                     <<"schema", JStr(<<"https", ":", "/", "/", "schema.getpostman.com", "/",
                                        "json", "/", "collection", "/", "v2.1.0", "/",
                                        "collection.json">>)>>,
                     <<"description",
                       Markdown(IF Truthy(collection_description) THEN collection_description
                                ELSE Get(oas_info, "description"))>> >>))

KeyValue(key, value) == JDict(<< <<"key", W(key)>>, <<"value", value>> >>)

\* _build_postman_variables: the collection after it
_build_postman_variables(server) ==
    IF ~IsDict(server) THEN Raise("AttributeError")
    ELSE SetItem(POSTMAN_COLLECTION, "variable",
            JList(<< KeyValue("baseUrl", Held(Get(server, "url"))),
                     KeyValue("bearerToken", JStr(<<>>)),
                     KeyValue("oauthAppId", JStr(<<>>)),
                     KeyValue("oauthSecret", JStr(<<>>)),
                     KeyValue("oauthScopes", W("default")) >>))

oauth_token == JStr(<<"https", ":", "/", "/", "app.asana.com", "/", "-", "/", "oauth_token">>)

\* _build_postman_auth: the collection after it
_build_postman_auth ==
    SetItem(POSTMAN_COLLECTION, "auth",
        JDict(<< <<"type", W("oauth2")>>,
                 <<"oauth2", JList(<<
                      KeyValue("authRequestParams", JList(<<>>)),
                      KeyValue("refreshTokenUrl", oauth_token),
                      KeyValue("state", JStr(<<"{", "{", "$randomUUID", "}", "}">>)),
                      KeyValue("scope", JStr(<<"{", "{", "oauthScopes", "}", "}">>)),
                      KeyValue("accessTokenUrl", oauth_token),
                      KeyValue("clientId", JStr(<<"{", "{", "oauthAppId", "}", "}">>)),
                      KeyValue("clientSecret", JStr(<<"{", "{", "oauthSecret", "}", "}">>)),
                      KeyValue("authUrl", JStr(<<"https", ":", "/", "/", "app.asana.com", "/",
                                                 "-", "/", "oauth_authorize">>)),
                      KeyValue("useBrowser", JBool(TRUE)),
                      KeyValue("tokenName", W("access_token")),
                      KeyValue("addTokenTo", W("header")) >>)>> >>))

\* a folder that is the tag's own dict, given a description block and an
\* empty item list in place
MutFolderIsTag(tag) ==
    JDict(SetItem(SetItem(tag, "description", Markdown(Get(tag, "description"))),
                  "item", JList(<<>>)).d
          \o << <<"@doc", tag>> >>)

\* the folder of one tag
Folder(tag) ==
    JDict(<< <<"name", Held(Get(tag, "name"))>>,
             <<"description", Markdown(Get(tag, "description"))>>,
             <<"item", JList(<<>>)>> >>)

\* a _build_postman_groups that keeps the folders the collection has
MutGroupsKeepFolders(oas_tags) ==
    IF Has(POSTMAN_COLLECTION, "item") THEN POSTMAN_COLLECTION
    ELSE SetItem(POSTMAN_COLLECTION, "item",
                 JList([i \in 1..Len(oas_tags.l) |-> Folder(oas_tags.l[i])]))

\* _build_postman_groups: the collection after it
_build_postman_groups(oas_tags) ==
    IF ~IsList(oas_tags) THEN Raise("TypeError")
    ELSE IF \E i \in 1..Len(oas_tags.l) : ~IsDict(oas_tags.l[i]) THEN Raise("AttributeError")
    ELSE SetItem(POSTMAN_COLLECTION, "item",
                 JList([i \in 1..Len(oas_tags.l) |-> Folder(oas_tags.l[i])]))

----------------------------------------------------------------------------
(* Links in descriptions *)

ASANA_DEV_DOCS_BASE_URL == <<"https", ":", "/", "/", "developers.asana.com">>

\* pattern_whitespace.sub('](', toks)
\* a match is "]", one or more whitespace tokens, "(": the whitespace goes
SubWhitespace(toks) ==
    LET Between(i) ==
            /\ toks[i] \in Whitespace
            /\ \E a \in 1..(i - 1) :
                  /\ toks[a] = "]"
                  /\ \A j \in (a + 1)..i : toks[j] \in Whitespace
            /\ \E b \in (i + 1)..Len(toks) :
                  /\ toks[b] = "("
                  /\ \A j \in i..(b - 1) : toks[j] \in Whitespace
    IN  Flatten([i \in 1..Len(toks) |-> IF Between(i) THEN <<>> ELSE <<toks[i]>>])

\* the place of the first tok in toks, 0 if there is none
First(toks, tok) ==
    IF \E i \in 1..Len(toks) : toks[i] = tok
    THEN CHOOSE i \in 1..Len(toks) : toks[i] = tok /\ \A j \in 1..(i - 1) : toks[j] # tok
    ELSE 0

\* the length of the match of pattern_relative_link that starts with the
\* first token of toks, 0 if there is none: a match is "[", one or more
\* tokens other than "]", "]", "(", "/", one or more tokens other than ")",
\* ")"; the look-behind (?<!:) looks at the "(" before it and never fails
LinkAt(toks) ==
    LET close == First(toks, "]")
        end == First(SubSeq(toks, close + 2, Len(toks)), ")")
    IN  IF /\ toks # <<>> /\ toks[1] = "[" /\ close > 2
           /\ Len(toks) >= close + 2
           /\ toks[close + 1] = "(" /\ toks[close + 2] = "/"
           /\ end > 2
        THEN close + 1 + end
        ELSE 0

\* pattern_relative_link.sub(fr'[\1]({ASANA_DEV_DOCS_BASE_URL}\2)', toks), one
\* match after the other from the left
RECURSIVE SubRelativeLink(_)
SubRelativeLink(toks) ==
    LET Starts(i) == LinkAt(SubSeq(toks, i, Len(toks))) > 0
    IN  IF ~\E i \in 1..Len(toks) : Starts(i) THEN toks
        ELSE LET start == CHOOSE i \in 1..Len(toks) :
                              Starts(i) /\ \A j \in 1..(i - 1) : ~Starts(j)
                 match == SubSeq(toks, start, start + LinkAt(SubSeq(toks, start, Len(toks))) - 1)
                 close == First(match, "]")
             IN  SubSeq(toks, 1, start - 1)
                 \o SubSeq(match, 1, close + 1) \o ASANA_DEV_DOCS_BASE_URL
                 \o SubSeq(match, close + 2, Len(match))
                 \o SubRelativeLink(SubSeq(toks, start + Len(match), Len(toks)))

\* one visit of process_value without the whitespace pattern
MutRewrittenLinksOnly(content) ==
    IF ~Truthy(content) THEN content
    ELSE IF ~IsStr(content) THEN Raise("TypeError")
    ELSE JStr(SubRelativeLink(content.s))

\* what one visit of process_value makes of the content of a Markdown block
Rewritten(content) ==
    IF ~Truthy(content) THEN content
    ELSE IF ~IsStr(content) THEN Raise("TypeError")
    ELSE JStr(SubRelativeLink(SubWhitespace(content.s)))

RECURSIVE RewrittenTimes(_, _)
RewrittenTimes(content, visits) ==
    IF visits = 0 \/ IsErr(content) THEN content
    ELSE RewrittenTimes(Rewritten(content), visits - 1)

\* the objects the places of the tree v hold, one entry for each place
RECURSIVE Ids(_)
Ids(v) ==
    IF IsDict(v) THEN
        (IF Has(v, "@id") THEN <<Item(v, "@id")>> ELSE <<>>)
        \o Flatten([i \in 1..Len(v.d) |-> Ids(v.d[i][2])])
    ELSE IF IsList(v) THEN Flatten([i \in 1..Len(v.l) |-> Ids(v.l[i])])
    ELSE <<>>

\* a raise record somewhere in the tree v
RECURSIVE Raised(_)
Raised(v) ==
    IF IsErr(v) THEN TRUE
    ELSE IF IsDict(v) THEN \E i \in 1..Len(v.d) : Raised(v.d[i][2])
    ELSE IF IsList(v) THEN \E i \in 1..Len(v.l) : Raised(v.l[i])
    ELSE FALSE

\* _build_dev_docs_urls: the collection after it.  process_value walks the
\* tree and rewrites the content of a Markdown block at each visit; an object
\* that several places hold is visited from each of them, and so is what it
\* holds
_build_dev_docs_urls ==
    LET ids == Ids(POSTMAN_COLLECTION)
        Places(id) == Cardinality({i \in 1..Len(ids) : ids[i] = id})
        RECURSIVE process_value(_, _)
        process_value(obj, visits) ==
            IF IsDict(obj) THEN
                LET times == IF Has(obj, "@id") THEN Places(Item(obj, "@id")) ELSE visits
                    block == IF Get(obj, "type") = JStr(<<"text", "/", "markdown">>)
                                /\ Has(obj, "content")
                             THEN SetItem(obj, "content",
                                          RewrittenTimes(Item(obj, "content"), times))
                             ELSE obj
                IN  JDict([i \in 1..Len(block.d) |->
                             <<block.d[i][1], process_value(block.d[i][2], times)>>])
            ELSE IF IsList(obj)
            THEN JList([i \in 1..Len(obj.l) |-> process_value(obj.l[i], visits)])
            ELSE obj
        processed == process_value(POSTMAN_COLLECTION, 1)
    IN  IF Raised(processed) THEN Raise("TypeError") ELSE processed

\* the tree v as json.dump sees it
RECURSIVE Plain(_)
Plain(v) ==
    IF IsDict(v)
    THEN LET pairs == Without(v.d, {"@id", "@doc"})
         IN  JDict([i \in 1..Len(pairs) |-> <<pairs[i][1], Plain(pairs[i][2])>>])
    ELSE IF IsList(v) THEN JList([i \in 1..Len(v.l) |-> Plain(v.l[i])])
    ELSE v

\* the objects of the document that the tree v holds, each as <<the dict as
\* it was loaded, the dict as it is now>>
RECURSIVE Borrowed(_)
Borrowed(v) ==
    IF IsDict(v)
    THEN (IF Has(v, "@doc") THEN {<<Item(v, "@doc"), Plain(v)>>} ELSE {})
         \cup UNION {Borrowed(v.d[i][2]) : i \in 1..Len(v.d)}
    ELSE IF IsList(v) THEN UNION {Borrowed(v.l[i]) : i \in 1..Len(v.l)}
    ELSE {}

\* the document when the objects it shares with the collection are as the
\* collection has them: what was assigned to them in place shows in the
\* document
RECURSIVE Edited(_, _)
Edited(node, shared) ==
    IF \E s \in shared : s[1] = node
    THEN (CHOOSE s \in shared : s[1] = node)[2]
    ELSE IF IsDict(node)
    THEN JDict([i \in 1..Len(node.d) |-> <<node.d[i][1], Edited(node.d[i][2], shared)>>])
    ELSE IF IsList(node) THEN JList([i \in 1..Len(node.l) |-> Edited(node.l[i], shared)])
    ELSE node

----------------------------------------------------------------------------
(* Documents and schemas the engine is exercised on *)

Obj1(n1, s1) == JDict(<< <<"type", W("object")>>,
                         <<"properties", JDict(<< <<n1, s1>> >>)>> >>)
Obj2(n1, s1, n2, s2) == JDict(<< <<"type", W("object")>>,
                                 <<"properties", JDict(<< <<n1, s1>>, <<n2, s2>> >>)>> >>)
Arr(items) == JDict(<< <<"type", W("array")>>, <<"items", items>> >>)
AllOf(branches) == JDict(<< <<"allOf", JList(branches)>> >>)

\* the str '#/seg/seg/...'
RECURSIVE Pointer(_)
Pointer(segs) ==
    IF segs = <<>> THEN <<"#">>
    ELSE Pointer(SubSeq(segs, 1, Len(segs) - 1)) \o <<"/", segs[Len(segs)]>>

RefTo(segs) == JDict(<< <<"$ref", JStr(Pointer(segs))>> >>)
SRef(name) == RefTo(<<"components", "schemas", name>>)

TStr == JDict(<< <<"type", W("string")>> >>)
TInt == JDict(<< <<"type", W("integer")>> >>)
TNum == JDict(<< <<"type", W("number")>> >>)
TBool == JDict(<< <<"type", W("boolean")>> >>)
TFile == JDict(<< <<"type", W("file")>> >>)
Empty == JDict(<<>>)
ROInt == JDict(<< <<"type", W("integer")>>, <<"readOnly", JBool(TRUE)>> >>)
StrEnum == JDict(<< <<"type", W("string")>>, <<"enum", JList(<<W("a"), W("b")>>)>> >>)

\* the schema of section 8: {id: integer readOnly, name: string}, required name
IdName == JDict(<< <<"type", W("object")>>,
                   <<"properties", JDict(<< <<"id", ROInt>>, <<"name", TStr>> >>)>>,
                   <<"required", JList(<<W("name")>>)>> >>)

DocOf(sA, sB, sC) ==
    JDict(<< <<"components",
               JDict(<< <<"schemas",
                          JDict(<< <<"A", sA>>, <<"B", sB>>, <<"C", sC>> >>)>> >>)>> >>)

SchemasA == { SRef("B"),
              AllOf(<<SRef("B"), SRef("C")>>),
              Obj2("p", SRef("B"), "q", ROInt),
              RefTo(<<"components", "schemas", "C", "type", "x">>),
              TStr }
SchemasB == { SRef("C"),
              Arr(SRef("C")),
              Obj2("p", SRef("C"), "q", TInt),
              StrEnum }
SchemasC == { TStr,
              IdName,
              None,
              SRef("C"),
              SRef("A"),
              SRef("Z"),
              Arr(SRef("C")) }

EngineDocs == {DocOf(sA, sB, sC) : sA \in SchemasA, sB \in SchemasB, sC \in SchemasC}

\* $ref values handed to _resolve_ref
RefPaths == { JStr(Pointer(<<"components", "schemas", "A">>)),
              JStr(Pointer(<<"components", "schemas", "B">>)),
              JStr(Pointer(<<"components", "schemas", "C">>)),
              JStr(Pointer(<<"components", "schemas", "Z">>)),
              JStr(Pointer(<<"components", "schemas", "C", "type">>)),
              JStr(Pointer(<<"components", "schemas", "C", "type", "x">>)),
              JStr(Pointer(<<"components", "schemas", "C", "properties", "id">>)),
              JStr(Pointer(<<"components", "schemas", "C", "required", "0">>)),
              JStr(Pointer(<<"components", "missing", "C">>)),
              JStr(<<"#">>),
              JStr(<<>>),
              TStr }

\* trees handed to _resolve_all_refs
RefTrees == { SRef("A"), SRef("B"), SRef("C"), SRef("Z"),
              Obj2("x", SRef("A"), "y", SRef("Z")),
              JList(<<SRef("C"), SRef("B")>>),
              AllOf(<<IdName, Arr(SRef("B"))>>),
              JDict(<< <<"$ref", TStr>> >>),
              IdName, Empty, W("text"), JInt(1), None, JList(<<>>) }

\* schemas without $ref
DescOnly == JDict(<< <<"description", W("d")>> >>)
StrEx == JDict(<< <<"type", W("string")>>, <<"example", W("ex")>> >>)
StrExEnum == JDict(<< <<"type", W("string")>>, <<"example", W("ex")>>,
                      <<"enum", JList(<<W("a"), W("b")>>)>> >>)
IntEnum == JDict(<< <<"type", W("integer")>>, <<"enum", JList(<<JInt(7), JInt(8)>>)>> >>)
EnumOnly == JDict(<< <<"enum", JList(<<W("a")>>)>> >>)
EnumEmpty == JDict(<< <<"type", W("string")>>, <<"enum", JList(<<>>)>> >>)
ROStr == JDict(<< <<"type", W("string")>>, <<"readOnly", JBool(TRUE)>> >>)
RWStr == JDict(<< <<"type", W("string")>>, <<"readOnly", JBool(FALSE)>> >>)
ArrNoItems == JDict(<< <<"type", W("array")>> >>)
ObjNoProps == JDict(<< <<"type", W("object")>> >>)
Untyped == JDict(<< <<"properties", JDict(<< <<"name", TNum>> >>)>>,
                    <<"required", JList(<<W("name")>>)>> >>)
NameX == JDict(<< <<"type", W("object")>>,
                  <<"properties", JDict(<< <<"name", TInt>>, <<"x", TBool>> >>)>>,
                  <<"required", JList(<<W("x"), W("name")>>)>> >>)
OneOf(branches) == JDict(<< <<"oneOf", JList(branches)>> >>)
AnyOf(branches) == JDict(<< <<"anyOf", JList(branches)>> >>)

Primitives == { Empty, TStr, TInt, TNum, TBool, TFile, DescOnly, StrEx, StrExEnum,
                StrEnum, IntEnum, EnumOnly, EnumEmpty, ROInt, ROStr, RWStr }

Objects == { Obj2("id", x, "name", y) : x \in {ROInt, TInt, Empty, StrEnum},
                                        y \in {TStr, ROStr, TBool, ArrNoItems} }
              \cup {IdName, NameX, ObjNoProps, Untyped}

Arrays == {Arr(x) : x \in Primitives \cup {IdName, NameX, Untyped, ArrNoItems, Arr(ROInt)}}
              \cup {ArrNoItems}

Nested == {Obj2("data", x, "meta", y) : x \in {IdName, Arr(IdName), Arr(Arr(ROStr)), Untyped},
                                        y \in {ROInt, Obj1("id", ROInt), Arr(EnumEmpty), TStr}}

\* the branches allOf schemas are made of
Branches == { IdName, Obj1("id", TStr), NameX, Untyped, TStr, Empty,
              OneOf(<<TStr, Obj1("name", TBool)>>), Arr(IdName) }

AllOfs == {AllOf(<<a, b, c>>) : a \in Branches, b \in Branches, c \in Branches}
              \cup {AllOf(<<AllOf(<<a, b>>), c>>) : a \in {IdName, Untyped}, b \in Branches,
                                                   c \in {NameX, Obj1("id", TStr)}}
              \cup {AllOf(<<>>), AllOf(<<SRef("C"), NameX>>),
                    Obj1("data", AllOf(<<IdName, NameX>>)),
                    Arr(AllOf(<<IdName, Obj1("id", TStr)>>))}

\* the document the schemas without $ref are tried in
PlainDoc == DocOf(TStr, StrEnum, IdName)

\* schemas handed to _build_example_from_schema and to _normalize_schema
Schemas ==
    RefTrees \cup
    (IF OAS = PlainDoc
     THEN Primitives \cup Objects \cup Arrays \cup Nested \cup AllOfs
     ELSE {})


\* a string schema of the enum values v1 .. vn
EnumOf(n) ==
    JDict(<< <<"type", W("string")>>,
             <<"enum", JList([i \in 1..n |-> W("v" \o ToString(i))])>> >>)

\* a property marked readOnly next to a composition: readOnly beside allOf
ROAllOf == JDict(<< <<"readOnly", JBool(TRUE)>>, <<"allOf", JList(<<StrEnum>>)>> >>)

\* property schemas the tables are built of
TableFields == { TStr, ROInt, ROStr, RWStr, IdName, Arr(IdName), Arr(TStr),
                 Obj1("inner", ROStr), ROAllOf, EnumEmpty,
                 EnumOf(1), EnumOf(limit), EnumOf(limit + 1), EnumOf(limit + 2) }

\* schemas handed to _get_table_from_schema
TableSchemas ==
    IF OAS = PlainDoc
    THEN { Obj2("a", x, "b", y) : x \in TableFields, y \in TableFields }
           \cup { AllOf(<<IdName, Obj1("b", x)>>) : x \in TableFields }
           \cup { TStr, Empty, ObjNoProps }
    ELSE {}

\* the branches anyOf and oneOf schemas are made of
Alternatives == { TStr, Empty, StrEnum, IdName, NameX, Untyped, W("text"),
                  AllOf(<<TStr, Obj1("id", TStr)>>), OneOf(<<TInt, NameX>>) }

\* anyOf and oneOf schemas handed to _normalize_schema
Compositions ==
    IF OAS = PlainDoc
    THEN { OneOf(<<a, b, c>>) : a \in Alternatives, b \in Alternatives, c \in Alternatives }
           \cup { AnyOf(<<a, b>>) : a \in Alternatives, b \in Alternatives }
           \cup { OneOf(<<>>), AnyOf(<<>>), AnyOf(<<TStr>>), OneOf(<<IdName>>),
                  Obj1("data", OneOf(<<TStr, IdName>>)) }
    ELSE {}

\* a requestBody or response of one JSON content with the schema
JsonBody(schema) ==
    JDict(<< <<"content",
               JDict(<< <<"application/json", JDict(<< <<"schema", schema>> >>)>> >>)>> >>)

----------------------------------------------------------------------------
(* The engine, one call at a time *)

NoCall == [op |-> "none", arg |-> None, flag |-> FALSE, result |-> None]

InitEngine ==
    /\ OAS \in EngineDocs
    /\ POSTMAN_COLLECTION = JDict(<<>>)
    /\ pc = "engine"
    /\ error = None
    /\ outputFile = None
    /\ hashSeed \in HashSeeds
    /\ nRuns = 0
    /\ postman_description = None
    /\ runs = <<>>
    /\ call = NoCall

Frame == UNCHANGED <<OAS, POSTMAN_COLLECTION, pc, error, outputFile, hashSeed, nRuns,
                     postman_description, runs>>

CallResolveRef ==
    /\ call = NoCall
    /\ \E ref \in RefPaths :
         call' = [op |-> "_resolve_ref", arg |-> ref, flag |-> FALSE,
                  result |-> _resolve_ref(ref)]
    /\ Frame

CallResolveAllRefs ==
    /\ call = NoCall
    /\ \E obj \in RefTrees :
         call' = [op |-> "_resolve_all_refs", arg |-> obj, flag |-> FALSE,
                  result |-> _resolve_all_refs(obj)]
    /\ Frame

CallBuildExample ==
    /\ call = NoCall
    /\ \E schema \in Schemas, ignore_readonly \in BOOLEAN :
         call' = [op |-> "_build_example_from_schema", arg |-> schema,
                  flag |-> ignore_readonly,
                  result |-> _build_example_from_schema(schema, ignore_readonly)]
    /\ Frame

CallNormalize ==
    /\ call = NoCall
    /\ \E schema \in Schemas \cup Compositions :
         call' = [op |-> "_normalize_schema", arg |-> schema, flag |-> FALSE,
                  result |-> _normalize_schema(schema)]
    /\ Frame

CallTable ==
    /\ call = NoCall
    /\ \E schema \in TableSchemas, include_readonly \in BOOLEAN :
         call' = [op |-> "_get_table_from_schema", arg |-> schema,
                  flag |-> include_readonly,
                  result |-> _get_table_from_schema(JsonBody(schema), include_readonly)]
    /\ Frame

NextEngine ==
    \/ CallResolveRef
    \/ CallResolveAllRefs
    \/ CallBuildExample
    \/ CallNormalize
    \/ CallTable

SpecEngine == InitEngine /\ [][NextEngine]_vars

----------------------------------------------------------------------------
(* Documents the conversion is run on *)

TaskBase == JDict(<< <<"type", W("object")>>,
                     <<"properties", JDict(<<
                          <<"gid", JDict(<< <<"type", W("string")>>,
                                            <<"readOnly", JBool(TRUE)>> >>)>>,
                          <<"name", JDict(<< <<"type", W("string")>>,
                                             <<"description",
                                               JStr(<<"The", " ", "name", "\n", "a", "|", "b">>)>> >>)>> >>)>>,
                     <<"required", JList(<<W("name")>>)>> >>)

TaskExtra == JDict(<< <<"type", W("object")>>,
                      <<"properties", JDict(<<
                           <<"notes", JDict(<< <<"type", W("string")>>,
                                               <<"enum", JList(<<W("x"), W("y")>>)>> >>)>>,
                           <<"tags", Arr(SRef("TaskBase"))>> >>)>>,
                      <<"required", JList(<<W("notes"), W("name")>>)>> >>)

Upload == JDict(<< <<"type", W("object")>>,
                   <<"properties", JDict(<<
                        <<"file", JDict(<< <<"type", W("string")>>,
                                           <<"format", W("binary")>> >>)>>,
                        <<"name", TStr>> >>)>>,
                   <<"required", JList(<<W("name")>>)>> >>)

Content(content_type, schema) ==
    JDict(<< <<"content", JDict(<< <<content_type, JDict(<< <<"schema", schema>> >>)>> >>)>> >>)

Described(description, body) == JDict(<< <<"description", description>> >> \o body.d)

LimitParam == JDict(<< <<"name", W("limit")>>, <<"in", W("query")>>,
                       <<"description", JStr(<<"See", " ", "[", "paging", "]", " ", "(", "/",
                                               "docs", "/", "pagination", ")">>)>>,
                       <<"schema", TInt>>, <<"example", JInt(50)>> >>)

GidParam == JDict(<< <<"name", W("task_gid")>>, <<"in", W("path")>>,
                     <<"required", JBool(TRUE)>>, <<"schema", TStr>> >>)

FieldsParam == JDict(<< <<"name", W("opt_fields")>>, <<"in", W("query")>>,
                        <<"schema", Arr(TStr)>>,
                        <<"example", JList(<<W("name"), W("notes")>>)>> >>)

Components(schemaC) ==
    JDict(<< <<"schemas", JDict(<< <<"TaskBase", TaskBase>>, <<"TaskExtra", TaskExtra>>,
                                   <<"C", schemaC>> >>)>>,
             <<"parameters", JDict(<< <<"limit", LimitParam>> >>)>>,
             <<"responses", JDict(<< <<"NotFound",
                  Described(W("missing"), Content("application/json", SRef("C")))>> >>)>> >>)

TaskBody == AllOf(<<SRef("TaskBase"), SRef("TaskExtra")>>)

GetTasks(status) ==
    JDict(<< <<"summary", JStr(<<"Get", " ", "tasks">>)>>,
             <<"description", JStr(<<"List", " ", "[", "tasks", "]", "(", "/", "docs", "/",
                                     "list", ")">>)>>,
             <<"tags", JList(<<W("Tasks"), W("Users")>>)>>,
             <<"parameters", JList(<<FieldsParam>>)>>,
             <<"responses", JDict(<<
                  <<"200", Described(W("ok"), Content("application/json", Arr(TaskBody)))>>,
                  <<status, RefTo(<<"components", "responses", "NotFound">>)>> >>)>> >>)

PostTask ==
    JDict(<< <<"tags", JList(<<W("Tasks")>>)>>,
             <<"requestBody", Content("application/json", Obj1("data", TaskBody))>>,
             <<"responses", JDict(<<
                  <<"201", Described(W("made"), Content("application/json", SRef("TaskBase")))>> >>)>> >>)

PutTask(param) ==
    JDict(<< <<"parameters", JList(<<param>>)>>,
             <<"requestBody", Content("multipart/form-data", Upload)>>,
             <<"responses", JDict(<< <<"299", JDict(<< <<"description", W("odd")>> >>)>> >>)>> >>)

Tags == JList(<< JDict(<< <<"name", W("Tasks")>>,
                          <<"description", JStr(<<"See", " ", "[", "guide", "]", " ", "(", "/",
                                                  "docs", "/", "tasks", ")">>)>> >>),
                 JDict(<< <<"name", W("Users")>> >>) >>)

Info == JDict(<< <<"title", W("Asana")>>,
                 <<"description", JStr(<<"The", " ", "API">>)>> >>)

Servers == JList(<<JDict(<< <<"url", JStr(<<"https", ":", "/", "/", "app.asana.com", "/",
                                            "api", "/", "1.0">>)>> >>)>>)

\* a document with the tags `tags`, whose first path answers `status` and
\* whose second path takes the parameter `param`
Document(tags, status, param, schemaC) ==
    JDict(<< <<"info", Info>>, <<"servers", Servers>> >> \o tags \o
          << <<"paths", JDict(<<
                <<"/tasks", JDict(<< <<"parameters",
                                       JList(<<RefTo(<<"components", "parameters", "limit">>)>>)>>,
                                     <<"summary", W("tasks")>>,
                                     <<"get", GetTasks(status)>>,
                                     <<"post", PostTask>> >>)>>,
                <<"/tasks/{task_gid}", JDict(<< <<"put", PutTask(param)>> >>)>> >>)>>,
             <<"components", Components(schemaC)>> >>)

\* the document of the model: two tags, three operations on two paths
FullDoc == Document(<< <<"tags", Tags>> >>, "404", GidParam, TStr)

\* the documents a run loads: the full one; one without tags; one whose
\* second path names a parameter that components does not have; an empty one
ConvertDocs ==
    { FullDoc,
      Document(<<>>, "404", GidParam, TStr),
      Document(<< <<"tags", Tags>> >>, "404",
               RefTo(<<"components", "parameters", "offset">>), TStr),
      JDict(<<>>) }

\* the requestBody of PostTask as an entry of components
TaskRequest == Content("application/json", Obj1("data", TaskBody))

ComponentsOf(requestBodies) ==
    JDict(Components(TStr).d \o << <<"requestBodies", requestBodies>> >>)

\* the tags with a folder "Others" between the two
Tags3 == JList(<< Tags.l[1],
                  JDict(<< <<"name", W("Others")>>,
                           <<"description", JStr(<<"[", "abs", "]", "(", "https", ":", "/", "/",
                                                   "example.com", "/", "x", ")">>)>> >>),
                  Tags.l[2] >>)

\* the tags key a document declares its folders by, if it has the key
TagDecls == { << <<"tags", Tags>> >>, << <<"tags", Tags3>> >>, <<>> }

\* the operation with the tags `names`, and without the key tags
Retagged(op, names) == SetItem(op, "tags", JList(names))
Untagged(op) == JDict(Without(op.d, {"tags"}))

\* the get operation under the ways an operation names its tags
Taggings == { GetTasks("404"),
              Retagged(GetTasks("404"), <<W("Users"), W("Tasks")>>),
              Retagged(GetTasks("404"), <<W("Missing"), W("Users")>>),
              Retagged(GetTasks("404"), <<>>),
              Untagged(GetTasks("404")) }

\* the second status key of the get operation
Statuses == {"404", "201", "299", "999", "default"}

\* the post operation with its requestBody inline, and as a $ref to the
\* equal entry of components
PostByRef == SetItem(PostTask, "requestBody",
                     RefTo(<<"components", "requestBodies", "TaskRequest">>))

\* descriptions with links: the example of the link rewrite, a relative and
\* an absolute link, an absolute link after whitespace, a target that does
\* not begin with "/", no link at all
LinkTexts ==
    { JStr(<<"[", "Guide", "]", " ", "(", "/", "docs", "/", "x", ")">>),
      JStr(<<"See", " ", "[", "a", "]", "(", "/", "docs", "/", "a", ")", " ", "and", " ",
             "[", "b", "]", "\n", " ", "(", "https", ":", "/", "/", "example.com", "/", "b", ")">>),
      JStr(<<"[", "c", "]", "(", "docs", "/", "c", ")", " ", "[", "d", "]", " ", "(", "/", "d", ")">>),
      JStr(<<"[", "e", "]", "(", "https", ":", "/", "/", "developers.asana.com", "/", "e", ")">>),
      JStr(<<"no", " ", "link", " ", "(", "/", "here", ")">>),
      JStr(<<>>) }

Redescribed(op, description) == SetItem(op, "description", description)

\* a document like Document with the get and the post operation given
DocumentOf(tags, get, post) ==
    JDict(<< <<"info", Info>>, <<"servers", Servers>> >> \o tags \o
          << <<"paths", JDict(<<
                <<"/tasks", JDict(<< <<"parameters",
                                       JList(<<RefTo(<<"components", "parameters", "limit">>)>>)>>,
                                     <<"summary", W("tasks")>>,
                                     <<"get", get>>,
                                     <<"post", post>> >>)>>,
                <<"/tasks/{task_gid}", JDict(<< <<"put", PutTask(GidParam)>> >>)>> >>)>>,
             <<"components",
               ComponentsOf(JDict(<< <<"TaskRequest", TaskRequest>> >>))>> >>)

\* the documents one conversion is looked at on: every way of declaring
\* folders with every way of naming tags; every status key with the
\* requestBody inline and by reference; every description
AssemblyDocs ==
    { DocumentOf(tags, get, PostTask) : tags \in TagDecls, get \in Taggings }
      \cup { DocumentOf(<< <<"tags", Tags3>> >>, GetTasks(status), post) :
               status \in Statuses, post \in {PostTask, PostByRef} }
      \cup { DocumentOf(<< <<"tags", Tags3>> >>, Redescribed(GetTasks("404"), text), PostTask) :
               text \in LinkTexts }

\* the texts postman_description.md can hold, None when it is missing
Descriptions == {None, JStr(<<"Read", " ", "[", "me", "]", "(", "/", "docs", ")">>)}

----------------------------------------------------------------------------
(* The conversion, one statement of convert_oas_to_postman at a time *)

\* the conversions a behaviour starts
MaxRuns == 2

Init ==
    /\ OAS = JDict(<<>>)
    /\ POSTMAN_COLLECTION = JDict(<<>>)
    /\ pc = "idle"
    /\ error = None
    /\ outputFile = None
    /\ hashSeed \in HashSeeds
    /\ nRuns = 0
    /\ postman_description \in Descriptions
    /\ runs = <<>>
    /\ call = NoCall

\* what a run that ends with `outcome` leaves in `runs`
Ended(outcome) ==
    Append(runs, [doc |-> OAS, seed |-> hashSeed, run |-> nRuns, outcome |-> outcome])

\* the statement at `at` leaves the collection c and control goes to `to`;
\* an exception ends the run; the document is left with what the statement
\* did to the objects the collection shares with it
Step(at, c, exc, to) ==
    /\ pc = at
    /\ POSTMAN_COLLECTION' = c
    /\ OAS' = Edited(OAS, Borrowed(c))
    /\ IF IsErr(exc)
       THEN /\ pc' = "idle"
            /\ error' = exc
            /\ runs' = Ended(exc)
       ELSE /\ pc' = to
            /\ UNCHANGED <<error, runs>>
    /\ UNCHANGED <<outputFile, hashSeed, nRuns, postman_description, call>>

\* the result of a builder that returns the collection or raises
Built(at, result, to) ==
    IF IsErr(result) THEN Step(at, POSTMAN_COLLECTION, result, to)
    ELSE Step(at, result, None, to)

\* convert_oas_to_postman is called: it reads the description, which is as
\* it was, and the document
Load ==
    /\ pc = "idle"
    /\ Len(runs) < MaxRuns
    /\ OAS' \in ConvertDocs
    /\ pc' = "info"
    /\ error' = None
    /\ nRuns' = nRuns + 1
    /\ UNCHANGED <<POSTMAN_COLLECTION, outputFile, hashSeed, postman_description, runs, call>>

BuildInfo ==
    Built("info", _build_postman_info(GetOr(OAS, "info", JDict(<<>>)), postman_description),
          "variables")

\* servers = OAS.get('servers') or [{}], then _build_postman_variables(servers[0])
BuildVariables ==
    LET servers == IF Truthy(Get(OAS, "servers")) THEN Get(OAS, "servers")
                   ELSE JList(<<JDict(<<>>)>>)
    IN  Built("variables",
              IF IsList(servers) THEN _build_postman_variables(servers.l[1])
              ELSE IF IsDict(servers) THEN Raise("KeyError")
              ELSE IF IsStr(servers) THEN Raise("AttributeError")
              ELSE Raise("TypeError"),
              "auth")

BuildAuth == Built("auth", _build_postman_auth, "groups")

BuildGroups == Built("groups", _build_postman_groups(GetOr(OAS, "tags", JList(<<>>))), "items")

\* the result of a builder that returns the collection it leaves and the
\* exception that ended it, if one did
Left(at, done, to) == Step(at, done.c, done.err, to)

BuildItems == Left("items", _build_postman_items(GetOr(OAS, "paths", JDict(<<>>))), "urls")

BuildDevDocsUrls == Built("urls", _build_dev_docs_urls, "dump")

\* json.dump(POSTMAN_COLLECTION, f, indent=2, ensure_ascii=False)
Dump ==
    /\ pc = "dump"
    /\ outputFile' = JStr(Dumps(Plain(POSTMAN_COLLECTION)))
    /\ runs' = Ended(outputFile')
    /\ pc' = "idle"
    /\ UNCHANGED <<OAS, POSTMAN_COLLECTION, error, hashSeed, nRuns, postman_description, call>>

\* the script is started again: a new process, with globals as the module
\* sets them and a hash seed of its own; the output file stays
Restart ==
    /\ pc = "idle"
    /\ nRuns > 0
    /\ Len(runs) < MaxRuns
    /\ OAS' = JDict(<<>>)
    /\ POSTMAN_COLLECTION' = JDict(<<>>)
    /\ hashSeed' \in HashSeeds
    /\ nRuns' = 0
    /\ error' = None
    /\ UNCHANGED <<pc, outputFile, postman_description, runs, call>>

Next ==
    \/ Load
    \/ BuildInfo
    \/ BuildVariables
    \/ BuildAuth
    \/ BuildGroups
    \/ BuildItems
    \/ BuildDevDocsUrls
    \/ Dump
    \/ Restart

Spec == Init /\ [][Next]_vars

\* convert_oas_to_postman is called once, on one of the documents of
\* AssemblyDocs
LoadOne ==
    /\ pc = "idle"
    /\ nRuns = 0
    /\ OAS' \in AssemblyDocs
    /\ pc' = "info"
    /\ error' = None
    /\ nRuns' = 1
    /\ UNCHANGED <<POSTMAN_COLLECTION, outputFile, hashSeed, postman_description, runs, call>>

NextAssembly ==
    \/ LoadOne
    \/ BuildInfo
    \/ BuildVariables
    \/ BuildAuth
    \/ BuildGroups
    \/ BuildItems
    \/ BuildDevDocsUrls
    \/ Dump

SpecAssembly == Init /\ [][NextAssembly]_vars

----------------------------------------------------------------------------
(* Claims about reference resolution *)

Schema(name) == Get(Get(Get(OAS, "components"), "schemas"), name)

\* no mapping with a $ref key anywhere in v
RECURSIVE NoRef(_)
NoRef(v) ==
    CASE IsDict(v) -> /\ ~Has(v, "$ref")
                      /\ \A i \in 1..Len(v.d) : NoRef(v.d[i][2])
      [] IsList(v) -> \A i \in 1..Len(v.l) : NoRef(v.l[i])
      [] OTHER -> TRUE

\* the node a pointer names: each segment in turn must be a key of the
\* mapping reached so far, with a value that is not null
RECURSIVE PointerTarget(_, _)
PointerTarget(obj, parts) ==
    IF parts = <<>> THEN obj
    ELSE IF IsDict(obj) /\ Has(obj, parts[1]) /\ ~IsNone(Item(obj, parts[1]))
         THEN PointerTarget(Item(obj, parts[1]), Tail(parts))
         ELSE Raise("KeyError")

IsRefCall == call.op = "_resolve_ref" /\ IsStr(call.arg)
IsDerefCall == call.op = "_resolve_all_refs"
Returned == ~IsErr(call.result)

\* C1: _resolve_all_refs terminates on every document and start node, also
\* when schemas refer to themselves or to each other: no call ends by
\* exhausting the interpreter's call stack.
C1_DerefTerminates ==
    IsDerefCall => call.result # Raise("RecursionError")

\* C2: _resolve_ref returns the node its pointer names when every segment
\* exists, raises KeyError at the first absent segment otherwise, never
\* returns null, and _resolve_all_refs of a $ref whose pointer is broken
\* raises that same error.
C2_ResolveOrKeyError ==
    /\ IsRefCall =>
         /\ call.result = PointerTarget(OAS, Split(RemovePair(call.arg.s, "#", "/"), "/"))
         /\ ~IsNone(call.result)
    /\ (IsDerefCall /\ IsDict(call.arg) /\ Has(call.arg, "$ref")
          /\ IsErr(_resolve_ref(Item(call.arg, "$ref")))) =>
         call.result = _resolve_ref(Item(call.arg, "$ref"))

\* C3: a tree _resolve_all_refs returns has no $ref key anywhere, in nested
\* mappings and in sequences, and a chain of references A -> B -> C is
\* replaced by the content of C.
C3_DerefLeavesNoRef ==
    (IsDerefCall /\ Returned) =>
        /\ NoRef(call.result)
        /\ (/\ call.arg = SRef("A")
            /\ Schema("A") = SRef("B")
            /\ Schema("B") = SRef("C")
            /\ NoRef(Schema("C"))) => call.result = Schema("C")

C3_Witness ==
    /\ IsDerefCall /\ Returned
    /\ call.arg = JList(<<SRef("C"), SRef("B")>>)
    /\ Schema("B") = Obj2("p", SRef("C"), "q", TInt)
    /\ Schema("C") = IdName
    /\ call.result = JList(<<IdName, Obj2("p", IdName, "q", TInt)>>)

\* C4: dereferencing is idempotent: dereferencing a returned tree again
\* returns an equal tree, and a tree with no $ref is returned equal to itself.
C4_DerefIdempotent ==
    (IsDerefCall /\ Returned) =>
        /\ _resolve_all_refs(call.result) = call.result
        /\ NoRef(call.arg) => call.result = call.arg

C4_Witness ==
    /\ IsDerefCall /\ Returned
    /\ call.arg = SRef("A")
    /\ Schema("A") = SRef("B")
    /\ Schema("B") = SRef("C")
    /\ Schema("C") = IdName
    /\ call.result = IdName
    /\ _resolve_all_refs(call.result) = IdName

----------------------------------------------------------------------------
(* Claims about example synthesis *)

IsSynthCall == call.op = "_build_example_from_schema" /\ IsDict(call.arg)
IsNormCall == call.op = "_normalize_schema" /\ IsDict(call.arg)

\* no $ref, allOf, anyOf or oneOf key anywhere in v
RECURSIVE PlainSchema(_)
PlainSchema(v) ==
    CASE IsDict(v) -> /\ Keys(v) \cap {"$ref", "allOf", "anyOf", "oneOf"} = {}
                      /\ \A i \in 1..Len(v.d) : PlainSchema(v.d[i][2])
      [] IsList(v) -> \A i \in 1..Len(v.l) : PlainSchema(v.l[i])
      [] OTHER -> TRUE

\* v has the shape of the type that schema declares
ShapeMatches(schema, v) ==
    LET type == Get(schema, "type")
    IN  CASE type = W("object") -> IsDict(v)
          [] type = W("array") -> IsList(v)
          [] type = W("string") -> IsStr(v)
          [] type \in {W("number"), W("integer")} -> v.k = "int"
          [] type = W("boolean") -> v.k = "bool"
          [] OTHER -> TRUE

\* C5: for a schema with no $ref, allOf, anyOf or oneOf,
\* _build_example_from_schema does not raise and returns a value of the
\* declared type's shape.
C5_SynthMatchesType ==
    (IsSynthCall /\ PlainSchema(call.arg)) =>
        /\ ~IsErr(call.result)
        /\ ShapeMatches(call.arg, call.result)

ReadOnly(prop_schema) ==
    IsDict(prop_schema) /\ Truthy(GetOr(prop_schema, "readOnly", JBool(FALSE)))

\* the fields the example of a dereferenced schema has: the properties of an
\* object schema that are not suppressed, and for allOf those of its branches
RECURSIVE TopFields(_, _)
TopFields(schema, suppress) ==
    IF ~IsDict(schema) THEN {}
    ELSE IF Has(schema, "allOf") THEN
        LET subs == Item(schema, "allOf").l
        IN  UNION {TopFields(subs[i], suppress) : i \in 1..Len(subs)}
    ELSE IF Get(schema, "type") = W("object") THEN
        LET props == GetOr(schema, "properties", JDict(<<>>))
        IN  {n \in Keys(props) : ~(suppress /\ ReadOnly(Item(props, n)))}
    ELSE {}

\* the property schema that field n of the example of schema comes from: in
\* an allOf, that of the last branch that gives the field
RECURSIVE Source(_, _, _)
Source(schema, n, suppress) ==
    IF Has(schema, "allOf") THEN
        LET subs == Item(schema, "allOf").l
            last == CHOOSE i \in 1..Len(subs) :
                        /\ n \in TopFields(subs[i], suppress)
                        /\ \A j \in (i + 1)..Len(subs) : n \notin TopFields(subs[j], suppress)
        IN  Source(subs[last], n, suppress)
    ELSE Item(Item(schema, "properties"), n)

\* example v has exactly the fields that schema declares and `suppress` does
\* not take away, at every depth
RECURSIVE Conforms(_, _, _)
Conforms(schema, v, suppress) ==
    IF ~IsDict(schema) \/ ~Truthy(schema) THEN TRUE
    ELSE IF Has(schema, "allOf") \/ Get(schema, "type") = W("object") THEN
        /\ IsDict(v)
        /\ Keys(v) = TopFields(schema, suppress)
        /\ \A n \in Keys(v) :
             /\ suppress => ~ReadOnly(Source(schema, n, suppress))
             /\ Conforms(Source(schema, n, suppress), Item(v, n), suppress)
    ELSE IF Get(schema, "type") = W("array") THEN
        /\ IsList(v)
        /\ Len(v.l) = 1
        /\ Conforms(GetOr(schema, "items", JDict(<<>>)), v.l[1], suppress)
    ELSE TRUE

\* C6 as amended: with ignore_readonly no field of the returned example
\* comes from a property schema marking readOnly: true (after dereferencing),
\* in object properties, array items and allOf branches alike, and every
\* other property of each object it builds is there; a name that one allOf
\* branch marks readOnly and another does not is kept, with the value of the
\* last branch that does not suppress it; without ignore_readonly every
\* declared property is there.  The schema {id: integer readOnly, name:
\* string} gives {name: "<string>"} and {id: 0, name: "<string>"}.
C6_ReadOnlySuppressed ==
    (IsSynthCall /\ Returned /\ ~IsErr(_resolve_all_refs(call.arg))) =>
        /\ Conforms(_resolve_all_refs(call.arg), call.result, call.flag)
        /\ call.arg = IdName =>
             call.result = IF call.flag
                           THEN JDict(<< <<"name", W("<string>")>> >>)
                           ELSE JDict(<< <<"id", JInt(0)>>, <<"name", W("<string>")>> >>)

C6_Witness ==
    /\ IsSynthCall /\ call.flag
    /\ call.arg = AllOf(<<Obj1("id", TStr), NameX, IdName>>)
    /\ call.result = JDict(<< <<"id", W("<string>")>>, <<"name", W("<string>")>>,
                              <<"x", JBool(FALSE)>> >>)

\* the property schemas that schema declares for the name n, in the order of
\* its allOf branches
RECURSIVE DeclaredSchemas(_, _)
RECURSIVE DeclaredInBranches(_, _)
DeclaredInBranches(subs, n) ==
    IF subs = <<>> THEN <<>>
    ELSE DeclaredSchemas(Head(subs), n) \o DeclaredInBranches(Tail(subs), n)

DeclaredSchemas(schema, n) ==
    IF ~IsDict(schema) THEN <<>>
    ELSE IF Has(schema, "allOf") THEN DeclaredInBranches(Item(schema, "allOf").l, n)
    ELSE IF Get(schema, "type") = W("object") /\ Has(schema, "properties")
            /\ Has(Item(schema, "properties"), n)
    THEN <<Item(Item(schema, "properties"), n)>>
    ELSE <<>>

\* no field of example v, at any depth, has a property schema (the last one
\* declared for its name) that marks readOnly: true
RECURSIVE NoReadOnlyField(_, _)
NoReadOnlyField(schema, v) ==
    IF ~IsDict(schema) \/ ~Truthy(schema) THEN TRUE
    ELSE IF Has(schema, "allOf") \/ Get(schema, "type") = W("object") THEN
        IsDict(v) =>
            \A n \in Keys(v) :
                LET declared == DeclaredSchemas(schema, n)
                IN  declared # <<>> =>
                        /\ ~ReadOnly(declared[Len(declared)])
                        /\ NoReadOnlyField(declared[Len(declared)], Item(v, n))
    ELSE IF Get(schema, "type") = W("array") THEN
        (IsList(v) /\ v.l # <<>>) =>
            NoReadOnlyField(GetOr(schema, "items", JDict(<<>>)), v.l[1])
    ELSE TRUE

\* C6 as stated: with ignore_readonly the returned example has no field whose
\* property schema marks readOnly: true, at any depth, and keeps every other
\* declared property; without it every declared property is there.
C6_NoReadOnlyField ==
    /\ C6_ReadOnlySuppressed
    /\ (IsSynthCall /\ Returned /\ call.flag /\ ~IsErr(_resolve_all_refs(call.arg))) =>
         NoReadOnlyField(_resolve_all_refs(call.arg), call.result)

IsArrayCall ==
    /\ IsSynthCall /\ NoRef(call.arg)
    /\ ~Has(call.arg, "allOf")
    /\ Get(call.arg, "type") = W("array")

\* C7: for a schema of type array the example is a list of exactly one
\* element, the example of `items`; with `items` missing synthesis does not
\* fail and the element is the placeholder of a schema with no type,
\* "<value>", not null.
C7_ArrayOfOneItem ==
    IsArrayCall =>
        IF Has(call.arg, "items")
        THEN LET item == _build_example_from_schema(Item(call.arg, "items"), call.flag)
             IN  ~IsErr(item) => call.result = JList(<<item>>)
        ELSE call.result = JList(<<W("<value>")>>)

IsPrimitiveCall ==
    /\ IsSynthCall /\ NoRef(call.arg)
    /\ ~Has(call.arg, "allOf")
    /\ Get(call.arg, "type") \notin {W("object"), W("array")}

\* the placeholder of a declared type
Placeholder(type) ==
    CASE type = W("string") -> W("<string>")
      [] type \in {W("number"), W("integer")} -> JInt(0)
      [] type = W("boolean") -> JBool(FALSE)
      [] OTHER -> W("<value>")

\* C8: for a schema with no allOf whose type is neither object nor array the
\* example is `example` when that key is present, else the first entry of
\* `enum` when present, else the placeholder of the declared type, else, for
\* an unknown or absent type and for a schema with no keys at all, "<value>".
C8_PrimitivePrecedence ==
    IsPrimitiveCall =>
        IF Has(call.arg, "example") THEN call.result = Item(call.arg, "example")
        ELSE IF Has(call.arg, "enum") THEN
            Item(call.arg, "enum").l # <<>> => call.result = Item(call.arg, "enum").l[1]
        ELSE call.result = Placeholder(Get(call.arg, "type"))

----------------------------------------------------------------------------
(* Claims about the allOf merge *)

IsTriple(schema) ==
    /\ IsDict(schema) /\ Has(schema, "allOf")
    /\ IsList(Item(schema, "allOf"))
    /\ Len(Item(schema, "allOf").l) = 3

\* {allOf: [{allOf: [A, B]}, C]} for {allOf: [A, B, C]}
Regrouped(schema) ==
    LET subs == Item(schema, "allOf").l
    IN  AllOf(<<AllOf(<<subs[1], subs[2]>>), subs[3]>>)

RequiredNames(schema) ==
    IF IsDict(schema) /\ Has(schema, "required")
    THEN {Item(schema, "required").l[i] : i \in 1..Len(Item(schema, "required").l)}
    ELSE {}

\* branch defines property n
Defines(branch, n) ==
    LET normalized_sub == _normalize_schema(branch)
    IN  /\ IsDict(normalized_sub) /\ Has(normalized_sub, "properties")
        /\ Has(Item(normalized_sub, "properties"), n)

\* the last of the branches `subs` to define n, 0 if there is none
LastDefining(subs, n) ==
    IF \E i \in 1..Len(subs) : Defines(subs[i], n)
    THEN CHOOSE i \in 1..Len(subs) :
            Defines(subs[i], n) /\ \A j \in (i + 1)..Len(subs) : ~Defines(subs[j], n)
    ELSE 0

LastGiving(examples, n) ==
    IF \E i \in 1..Len(examples) : IsDict(examples[i]) /\ Has(examples[i], n)
    THEN CHOOSE i \in 1..Len(examples) :
            /\ IsDict(examples[i]) /\ Has(examples[i], n)
            /\ \A j \in (i + 1)..Len(examples) : ~(IsDict(examples[j]) /\ Has(examples[j], n))
    ELSE 0

\* the allOf merge is associative, and in the normalized properties the
\* last branch to define a name wins
MergeAssociative ==
    /\ (IsNormCall /\ IsTriple(call.arg) /\ Returned) =>
         LET subs == Item(call.arg, "allOf").l
             regrouped == _normalize_schema(Regrouped(call.arg))
             props == GetOr(call.result, "properties", JDict(<<>>))
         IN  /\ Get(call.result, "properties") = Get(regrouped, "properties")
             /\ RequiredNames(call.result) = RequiredNames(regrouped)
             /\ \A i \in 1..3 : \A n \in Keys(GetOr(_normalize_schema(subs[i]), "properties",
                                                     JDict(<<>>))) :
                  /\ Has(props, n)
                  /\ Item(props, n) =
                       Item(Item(_normalize_schema(subs[LastDefining(subs, n)]), "properties"), n)
    /\ (IsSynthCall /\ IsTriple(call.arg)) =>
         call.result = _build_example_from_schema(Regrouped(call.arg), call.flag)

\* C10 as amended: the allOf merge is associative (same properties, same
\* required names, equal examples for {allOf: [A, B, C]} and
\* {allOf: [{allOf: [A, B]}, C]}); a name that several branches define has
\* the later branch's schema in the normalized properties, and in the example
\* the value from the last branch whose own example is an object with it.
C10_MergeLastGivenWins ==
    /\ MergeAssociative
    /\ (IsSynthCall /\ IsTriple(call.arg) /\ Returned) =>
         LET subs == Item(call.arg, "allOf").l
             examples == [i \in 1..3 |-> _build_example_from_schema(subs[i], call.flag)]
         IN  /\ IsDict(call.result)
             /\ \A i \in 1..3 : IsDict(examples[i]) => Keys(examples[i]) \subseteq Keys(call.result)
             /\ \A n \in Keys(call.result) :
                  /\ LastGiving(examples, n) # 0
                  /\ Item(call.result, n) = Item(examples[LastGiving(examples, n)], n)

C10_Witness ==
    /\ IsSynthCall /\ call.flag
    /\ call.arg = AllOf(<<Obj1("id", TStr), IdName, NameX>>)
    /\ call.result = JDict(<< <<"id", W("<string>")>>, <<"name", JInt(0)>>,
                              <<"x", JBool(FALSE)>> >>)

\* branch is an object schema that declares property n
Declares(branch, n) ==
    /\ IsDict(branch) /\ Get(branch, "type") = W("object")
    /\ Has(branch, "properties")
    /\ IsDict(Item(branch, "properties"))
    /\ Has(Item(branch, "properties"), n)

LastDeclaring(subs, n) ==
    CHOOSE i \in 1..Len(subs) :
        Declares(subs[i], n) /\ \A j \in (i + 1)..Len(subs) : ~Declares(subs[j], n)

\* C10 as stated: the allOf merge is associative, and whenever two branches
\* define the same property name, the value from the later branch is the one
\* in the result, in the normalized properties and in the example.
C10_MergeLastBranchWins ==
    /\ MergeAssociative
    /\ (IsSynthCall /\ IsTriple(call.arg) /\ Returned) =>
         LET subs == Item(call.arg, "allOf").l
         IN  \A n \in {"id", "name", "x"} :
                (\E i, j \in 1..3 : i # j /\ Declares(subs[i], n) /\ Declares(subs[j], n)) =>
                    /\ IsDict(call.result) /\ Has(call.result, n)
                    /\ Item(call.result, n) =
                         _build_example_from_schema(
                             Item(Item(subs[LastDeclaring(subs, n)], "properties"), n),
                             call.flag)


----------------------------------------------------------------------------
(* Claims about the field tables *)

IsTableCall == call.op = "_get_table_from_schema" /\ Returned

\* the lines of the rows of the table returned: the lines that open with
\* "| " and a back-tick (the two header lines do not)
RowLines ==
    LET toks == call.result.s
        last(i) == CHOOSE j \in i..Len(toks) :
                       /\ j = Len(toks) \/ toks[j + 1] = "\n"
                       /\ \A k \in i..j : toks[k] # "\n"
    IN  { SubSeq(toks, i, last(i)) :
            i \in {i \in 1..(Len(toks) - 2) :
                     /\ i = 1 \/ toks[i - 1] = "\n"
                     /\ toks[i] = "|" /\ toks[i + 2] = BackTick} }

\* the dotted name of a row: what stands between its first two back-ticks
NameOfRow(line) ==
    LET close == CHOOSE i \in 4..Len(line) :
                     line[i] = BackTick /\ \A j \in 4..(i - 1) : line[j] # BackTick
    IN  SubSeq(line, 4, close - 1)

RowNames == {NameOfRow(line) : line \in RowLines}

\* the properties a schema declares at any depth (in its own properties, in
\* the branches of its allOf, in the items of an array property), each as
\* <<dotted name, property schema as the document writes it>>
RECURSIVE Declared(_, _)
Declared(schema, prefix) ==
    IF ~IsDict(schema) THEN {}
    ELSE LET props == GetOr(schema, "properties", JDict(<<>>)).d
             branches == GetOr(schema, "allOf", JList(<<>>)).l
         IN  UNION { {<<prefix \o <<props[i][1]>>, props[i][2]>>}
                       \cup Declared(props[i][2], prefix \o <<props[i][1], ".">>)
                       \cup Declared(GetOr(props[i][2], "items", None),
                                     prefix \o <<props[i][1], "[", "]", ".">>)
                     : i \in 1..Len(props) }
             \cup UNION { Declared(branches[i], prefix) : i \in 1..Len(branches) }

\* C11: the table built with include_readonly false has no row for a property
\* whose schema marks readOnly: true, at any depth and also when readOnly
\* stands next to allOf; the table built with include_readonly true has a row
\* for every property.
C11_NoReadOnlyRow ==
    IsTableCall =>
        \A p \in Declared(call.arg, <<>>) :
            IF call.flag THEN p[1] \in RowNames
            ELSE ReadOnly(p[2]) => p[1] \notin RowNames


\* the place of the n-th "|" of a row
Bar(line, n) ==
    CHOOSE i \in 1..Len(line) :
        line[i] = "|" /\ Cardinality({j \in 1..(i - 1) : line[j] = "|"}) = n - 1

\* the enum-values cell of a row: what stands between its third and its
\* fourth "|", without the space on either side
EnumCell(line) == SubSeq(line, Bar(line, 3) + 2, Bar(line, 4) - 2)

\* the values, each between back-ticks, joined by ", "
RECURSIVE BackTicked(_)
BackTicked(values) ==
    IF values = <<>> THEN ""
    ELSE IF Len(values) = 1 THEN BackTick \o values[1].s[1] \o BackTick
    ELSE BackTicked(SubSeq(values, 1, Len(values) - 1))
         \o ", " \o BackTick \o values[Len(values)].s[1] \o BackTick

\* the cell the claim gives a list of enum values
CellOf(values) ==
    IF Len(values) <= 10 THEN BackTicked(values)
    ELSE BackTicked(SubSeq(values, 1, 10))
         \o ", ... (+" \o ToString(Len(values) - 10) \o " more)"

\* C17: the enum-values cell of a row lists the enum values in declaration
\* order, each between back-ticks and joined by ", ": all of them when they
\* are at most 10, the first 10 followed by ", ... (+(n-10) more)" when they
\* are n > 10; without enum values, or with an empty list of them, the cell
\* is empty.
C17_EnumCell ==
    IsTableCall /\ call.flag =>
        \A line \in RowLines :
            \E p \in Declared(call.arg, <<>>) :
                /\ p[1] = NameOfRow(line)
                /\ ~Has(p[2], "allOf") =>
                     Text(EnumCell(line)) = CellOf(GetOr(p[2], "enum", JList(<<>>)).l)

\* a table with a field of 11 and a field of 10 enum values: the cell of the
\* first ends with ", ... (+1 more)" after 10 values, the cell of the second
\* has its 10 values and no more
C17_Witness ==
    /\ IsTableCall /\ call.flag
    /\ call.arg = Obj2("a", EnumOf(11), "b", EnumOf(10))
    /\ \E line \in RowLines :
         /\ NameOfRow(line) = <<"a">>
         /\ Text(EnumCell(line))
              = BackTicked([i \in 1..10 |-> W("v" \o ToString(i))]) \o ", ... (+1 more)"
    /\ \E line \in RowLines :
         /\ NameOfRow(line) = <<"b">>
         /\ Text(EnumCell(line)) = BackTicked([i \in 1..10 |-> W("v" \o ToString(i))])
----------------------------------------------------------------------------
(* Claims about anyOf and oneOf *)

\* a call of _normalize_schema on a schema of one anyOf or one oneOf list
IsChoiceCall ==
    /\ IsNormCall /\ Returned
    /\ ~Has(call.arg, "allOf")
    /\ Has(call.arg, "anyOf") # Has(call.arg, "oneOf")
    /\ IsList(call.arg.d[1][2])

\* the branches of the schema of the call, in declaration order
Choices == call.arg.d[1][2].l

\* the branches whose normalized form has a properties key
Qualifying ==
    { i \in 1..Len(Choices) :
        /\ IsDict(_normalize_schema(Choices[i]))
        /\ Has(_normalize_schema(Choices[i]), "properties") }

\* the branch the claim names: the first qualifying one, else the first
Chosen == IF Qualifying = {} THEN 1
          ELSE CHOOSE i \in Qualifying : \A j \in Qualifying : i <= j

\* the schema of the call without the branches after the chosen one
Shortened ==
    JDict(<< <<call.arg.d[1][1], JList(SubSeq(Choices, 1, Chosen))>> >>)

\* C12: for a schema with anyOf or oneOf, _normalize_schema returns the
\* normalization of the first branch whose normalized form has properties,
\* the normalization of the first branch if there is none, and what it
\* returns does not depend on the branches after the chosen one.
C12_FirstBranchWithProperties ==
    IsChoiceCall /\ Choices # <<>> =>
        /\ call.result = _normalize_schema(Choices[Chosen])
        /\ call.result = _normalize_schema(Shortened)

\* a oneOf of three branches of which the second and the third have
\* properties came back as the second
C12_Witness ==
    /\ IsChoiceCall
    /\ call.arg = OneOf(<<TStr, IdName, NameX>>)
    /\ Qualifying = {2, 3}
    /\ call.result = IdName


----------------------------------------------------------------------------
(* Claims about the assembly of the collection *)

\* the items were built and the run goes on
ItemsBuilt == pc \in {"urls", "dump"}

\* the operations of the document in path-then-method order, each as
\* <<path, method, endpoint>>
Operations ==
    LET paths == GetOr(OAS, "paths", JDict(<<>>)).d
    IN  Flatten([i \in 1..Len(paths) |->
          Flatten([j \in 1..Len(paths[i][2].d) |->
            IF paths[i][2].d[j][1] \in methods
            THEN << <<paths[i][1], paths[i][2].d[j][1], paths[i][2].d[j][2]>> >>
            ELSE <<>>])])

\* the tags an operation is filed under
TagsOf(endpoint) ==
    IF Has(endpoint, "tags") THEN Item(endpoint, "tags").l ELSE <<W("Others")>>

\* what tells the item of an operation from the others: method and path
KeyOfOperation(op) == <<W(Upper(op[2])), _resolve_request_path(op[1])>>
KeyOfItem(item) ==
    <<Item(Item(item, "request"), "method"),
      Item(Item(Item(item, "request"), "url"), "path")>>

\* the names of the tags the document declares, in declaration order
DeclaredTags ==
    LET tags == GetOr(OAS, "tags", JList(<<>>)).l
    IN  [i \in 1..Len(tags) |-> Get(tags[i], "name")]

Folders == GetOr(POSTMAN_COLLECTION, "item", JList(<<>>)).l

\* the operations filed under the tag, in path-then-method order
FiledUnder(name) ==
    Flatten([i \in 1..Len(Operations) |->
               IF \E t \in 1..Len(TagsOf(Operations[i][3])) : TagsOf(Operations[i][3])[t] = name
               THEN <<KeyOfOperation(Operations[i])>> ELSE <<>>])

\* an operation of the document names a tag that the document does not declare
SomeTagUndeclared ==
    \E i \in 1..Len(Operations) : \E t \in 1..Len(TagsOf(Operations[i][3])) :
        \A d \in 1..Len(DeclaredTags) : DeclaredTags[d] # TagsOf(Operations[i][3])[t]

FiledItems == Flatten([i \in 1..Len(Folders) |-> Item(Folders[i], "item").l])

\* the operation an item was built for
OperationOf(item) ==
    Operations[CHOOSE i \in 1..Len(Operations) : KeyOfOperation(Operations[i]) = KeyOfItem(item)]

\* the status keys an operation declares, in declaration order
StatusKeys(endpoint) ==
    LET responses == GetOr(endpoint, "responses", JDict(<<>>)).d
    IN  [i \in 1..Len(responses) |-> responses[i][1]]

\* the key has an entry in the table of standard phrases
InPhraseTable(status_code) ==
    ~IsErr(IntOf(status_code)) /\ ~IsErr(HTTPStatus(IntOf(status_code).i))

\* an operation of the document declares a status key the table does not have
SomeStatusUnknown ==
    \E i \in 1..Len(Operations) : \E k \in 1..Len(StatusKeys(Operations[i][3])) :
        ~InPhraseTable(StatusKeys(Operations[i][3])[k])

\* the response example is the one of the status key: named after the key,
\* with the standard phrase of the key or "Unknown", and with the key's number
\* as its code when the key is a number
RendersStatus(response, status_code) ==
    /\ SubSeq(Item(response, "name").s, 1, 3) = <<"[", status_code, "]">>
    /\ Item(response, "status") = IF InPhraseTable(status_code)
                                  THEN HTTPStatus(IntOf(status_code).i)
                                  ELSE W("Unknown")
    /\ ~IsErr(IntOf(status_code)) => Item(response, "code") = IntOf(status_code)

\* C14: for every status key of an operation's responses there is exactly one
\* response example, in declaration order; a key the table of standard
\* phrases does not have is never fatal: it is rendered with the status
\* "Unknown" and the conversion goes on, and a key of the table is rendered
\* with its standard phrase.
C14_EveryStatusRendered ==
    /\ SomeStatusUnknown => error = None
    /\ ItemsBuilt =>
         \A n \in 1..Len(FiledItems) :
            LET keys == StatusKeys(OperationOf(FiledItems[n])[3])
                response == Item(FiledItems[n], "response").l
            IN  /\ Len(response) = Len(keys)
                /\ \A k \in 1..Len(keys) : RendersStatus(response[k], keys[k])

\* C15: the document is never mutated during a run: from the statement after
\* the load to the end of the run no statement (building info, variables,
\* folders and items with the engine under them, rewriting the links in
\* place) changes a node of the loaded document.
C15_DocumentNeverMutated == [][pc # "idle" => OAS' = OAS]_vars

\* the links were rewritten in place in the collection: the description of
\* the first folder has its link rewritten, the tag it was made from has the
\* text as loaded, and the document is the one that was loaded
C15_Witness ==
    /\ pc = "dump"
    /\ OAS = DocumentOf(<< <<"tags", Tags3>> >>, GetTasks("404"), PostTask)
    /\ Item(Item(Folders[1], "description"), "content")
         = JStr(<<"See", " ", "[", "guide", "]", "(">> \o ASANA_DEV_DOCS_BASE_URL
                \o <<"/", "docs", "/", "tasks", ")">>)
    /\ Item(Item(OAS, "tags").l[1], "description")
         = JStr(<<"See", " ", "[", "guide", "]", " ", "(", "/", "docs", "/", "tasks", ")">>)
    /\ Len(Item(Folders[1], "item").l) = 2

IsBlock(v) ==
    IsDict(v) /\ Get(v, "type") = JStr(<<"text", "/", "markdown">>) /\ Has(v, "content")

\* the Markdown-typed description objects of the tree v, at every place that
\* holds one, each as <<its content in v, its content at the same place of w>>
RECURSIVE Blocks(_, _)
Blocks(v, w) ==
    IF IsDict(v) /\ IsDict(w) /\ Len(v.d) = Len(w.d)
    THEN (IF IsBlock(v) /\ IsBlock(w) THEN {<<Item(v, "content"), Item(w, "content")>>} ELSE {})
         \cup UNION {Blocks(v.d[i][2], w.d[i][2]) : i \in 1..Len(v.d)}
    ELSE IF IsList(v) /\ IsList(w) /\ Len(v.l) = Len(w.l)
    THEN UNION {Blocks(v.l[i], w.l[i]) : i \in 1..Len(v.l)}
    ELSE {}

\* the tree v without the contents of its Markdown-typed description objects
RECURSIVE Skeleton(_)
Skeleton(v) ==
    IF IsDict(v)
    THEN JDict([i \in 1..Len(v.d) |->
                  IF IsBlock(v) /\ v.d[i][1] = "content" THEN <<"content", None>>
                  ELSE <<v.d[i][1], Skeleton(v.d[i][2])>>])
    ELSE IF IsList(v) THEN JList([i \in 1..Len(v.l) |-> Skeleton(v.l[i])])
    ELSE v

\* the token after the whitespace that follows place i
AfterSpace(toks, i) ==
    CHOOSE j \in (i + 1)..(Len(toks) + 1) :
        /\ j = Len(toks) + 1 \/ toks[j] \notin Whitespace
        /\ \A k \in (i + 1)..(j - 1) : toks[k] \in Whitespace

\* a Markdown link at the head of toks, as <<place of "]", place of "(",
\* place of ")">>, <<>> if there is none: "[", a text, "]", whitespace or
\* none, "(", a target, ")"
LinkAhead(toks) ==
    LET close == First(toks, "]")
        open == IF close = 0 THEN 0 ELSE AfterSpace(toks, close)
        end == IF open = 0 \/ open > Len(toks) THEN 0
               ELSE First(SubSeq(toks, open + 1, Len(toks)), ")")
    IN  IF toks # <<>> /\ toks[1] = "[" /\ close > 2 /\ open <= Len(toks)
           /\ toks[open] = "(" /\ end > 1
        THEN <<close, open, open + end>>
        ELSE <<>>

\* the text after rewriting when its first link begins at place start
RECURSIVE LinkedFrom(_, _)

\* the text as the claim has it after rewriting: each link without the
\* whitespace between "]" and "(", with the base before a target that begins
\* with "/", and with any other target as it was
RECURSIVE Linked(_)
Linked(toks) ==
    IF \A i \in 1..Len(toks) : toks[i] # "[" \/ LinkAhead(SubSeq(toks, i, Len(toks))) = <<>>
    THEN toks
    ELSE LinkedFrom(toks, CHOOSE i \in 1..Len(toks) :
                            /\ toks[i] = "[" /\ LinkAhead(SubSeq(toks, i, Len(toks))) # <<>>
                            /\ \A j \in 1..(i - 1) :
                                 toks[j] # "[" \/ LinkAhead(SubSeq(toks, j, Len(toks))) = <<>>)

LinkedFrom(toks, start) ==
    LET link == SubSeq(toks, start, Len(toks))
        at == LinkAhead(link)
        target == SubSeq(link, at[2] + 1, at[3] - 1)
    IN  SubSeq(toks, 1, start - 1) \o SubSeq(link, 1, at[1]) \o <<"(">>
        \o (IF target[1] = "/" THEN ASANA_DEV_DOCS_BASE_URL ELSE <<>>)
        \o target \o <<")">>
        \o Linked(SubSeq(link, at[3] + 1, Len(link)))

LinkedContent(content) == IF IsStr(content) THEN JStr(Linked(content.s)) ELSE content

PlaceOf(toks, head) ==
    IF \E i \in 1..(Len(toks) - Len(head) + 1) : SubSeq(toks, i, i + Len(head) - 1) = head
    THEN CHOOSE i \in 1..(Len(toks) - Len(head) + 1) : SubSeq(toks, i, i + Len(head) - 1) = head
    ELSE 0

\* the description of the item has a request-body table: there is text
\* between the headings "## Request Body:" and "## Response Body:"
HasRequestTable(item) ==
    LET toks == Item(Item(Item(item, "request"), "description"), "content").s
        from == PlaceOf(toks, <<"##", " ", "Request", " ", "Body", ":">>)
        to == PlaceOf(toks, <<"##", " ", "Response", " ", "Body", ":">>)
    IN  from > 0 /\ \E k \in (from + 6)..(to - 1) : toks[k] # "\n"

\* the requestBody of an operation as it reads inline: the entry of
\* components when the operation has a $ref to it
Inline(request_body) ==
    IF IsDict(request_body) /\ Has(request_body, "$ref")
    THEN _resolve_ref(Item(request_body, "$ref"))
    ELSE request_body

\* C18: the body of a request item does not depend on whether the
\* operation's requestBody is written inline or as a $ref to an equal entry
\* of components: it is the body of the inline form; and an item whose
\* request-body table is not empty has a body that is not null.
C18_BodyOfReferencedRequestBody ==
    ItemsBuilt =>
        \A n \in 1..Len(FiledItems) :
            LET body == Item(Item(FiledItems[n], "request"), "body")
                request_body == Get(OperationOf(FiledItems[n])[3], "requestBody")
            IN  /\ body = _resolve_request_body(Inline(request_body))
                /\ HasRequestTable(FiledItems[n]) => body # None
----------------------------------------------------------------------------
(* Claims about the whole conversion *)

\* C9: the same document always gives the same collection: any two runs that
\* loaded equal documents ended alike, with the same output text or the same
\* exception, also when the later run came second in one process and found
\* what the earlier run left in POSTMAN_COLLECTION, and also when the two
\* processes differ in the order their sets of required names iterate in.
C9_SameDocumentSameCollection ==
    \A i, j \in 1..Len(runs) :
        runs[i].doc = runs[j].doc => runs[i].outcome = runs[j].outcome

\* the full document was converted twice in one process, in which the merged
\* required names of its request body come out in the reversed order
C9_Witness ==
    /\ Len(runs) = 2
    /\ runs[1].doc = FullDoc /\ runs[2].doc = FullDoc
    /\ runs[1].run = 1 /\ runs[2].run = 2
    /\ IsStr(runs[2].outcome) /\ outputFile = runs[2].outcome
    /\ Has(POSTMAN_COLLECTION, "item")
    /\ Item(_normalize_schema(_resolve_all_refs(TaskBody)), "required")
         = JList(<<W("notes"), W("name")>>)

====
